---- MODULE Spec2Model ----
(***************************************************************************)
(* Tiny FOB: a link redirector with click logging, a rate limiter on the   *)
(* redirect path, a process-wide kill switch and an admin surface.         *)
(* The model follows the hardened + metrics variant of index.js            *)
(* (src/unnamed/part_002, lines 243-566).                                  *)
(*                                                                         *)
(* A request is a record; the express middleware chain is modelled in its  *)
(* registration order.  A handler that awaits the storage pool is split at *)
(* the await: one action up to the await, one action per way the awaited   *)
(* query settles.  Everything that runs without an await is one action,    *)
(* since Node runs it to completion before any other request is handled.   *)
(***************************************************************************)
EXTENDS Integers, Sequences, FiniteSets, TLC

VARIABLES
    killed,       \* app.locals.killed
    adminHist,    \* history: the last two successful kill / unkill transitions
    pool,         \* TRUE iff DATABASE_URL was set, so that pool is not null
    allowlist,    \* DEST_HOST_ALLOWLIST
    hits,         \* the rate limiter's store: limiter key -> requests counted in the window
    clicks,       \* the clicks table, in insertion (id) order
    clicksTotal,  \* the clicks_total counter, per slug label
    pending,      \* /go requests suspended at `await pool.query(INSERT ...)`
    resp,         \* the response sent last, with the request it answers
    rawIn,        \* validator check: the raw destination under test
    destOut,      \* validator check: what the redirect handler resolved it to
    proc          \* the process: its start, the schema initialisation, its shutdown

vars == <<killed, adminHist, pool, allowlist, hits, clicks, clicksTotal,
          pending, resp, rawIn, destOut, proc>>

(***************************************************************************)
(* Bounds of the model.                                                    *)
(***************************************************************************)
\* rows the clicks table may hold
MaxClicks == 2
\* /go requests that may be suspended at the insert at the same time
MaxInflight == 1
\* requests one limiter key may issue per window in the service specification
MaxHits == 2
\* requests counted beyond the limiter's threshold in the limiter specification
MaxOver == 2
\* tokens of a raw destination in the validator specification
MaxLen == 5
\* termination signals one run of the process may receive
MaxSignals == 2
\* restarts of the process
MaxBoots == 1
\* rows of the table the statistics specification starts from
MaxRows == 4

(***************************************************************************)
(* Program constants.                                                      *)
(***************************************************************************)
\* process.env.FOB_ADMIN_PASS || "testpass"
ADMIN == "testpass"
\* rateLimit({ max: 120 })
RATE_MAX == 120
\* req.get(name) of a header the request does not carry (undefined)
NoHeader == "<undefined>"
\* SELECT * FROM clicks ORDER BY id DESC LIMIT 1000
EXPORT_LIMIT == 1000
\* SELECT ... FROM clicks ORDER BY id DESC LIMIT 5
LAST_LIMIT == 5

(***************************************************************************)
(* Strings are sequences of tokens, so that parsing has something to do.   *)
(* A URL such as "https://example.com" is <<"https", ":", "/", "/",        *)
(* "example.com">>.                                                        *)
(***************************************************************************)
\* the literal "https://example.com" of the redirect handler
FALLBACK == <<"https", ":", "/", "/", "example.com">>

\* String.prototype.toLowerCase on a token
Lower(t) ==
    CASE t = "HTTPS" -> "https"
      [] t = "HTTP" -> "http"
      [] t = "EXAMPLE.COM" -> "example.com"
      [] OTHER -> t

\* tokens made of ASCII letters, digits, "+", "-", "." that start with a letter
Words == {"https", "http", "HTTPS", "HTTP", "ftp", "javascript",
          "example.com", "EXAMPLE.COM", "evil.example"}
\* tokens made of digits that denote a number not above 65535
Ports == {"8080"}
\* leading and trailing C0 control or space
Spaces == {" "}
\* the special schemes of the URL standard ("file", which has a state of its
\* own, is not among the tokens)
SpecialSchemes == {"http", "https", "ftp", "ws", "wss"}

\* a token sequence is the tokenisation of a string when no two tokens that
\* would read as one word or number are adjacent
WellTokenised(s) ==
    \A i \in 1..(Len(s) - 1) :
        ~(s[i] \in Words \cup Ports /\ s[i + 1] \in Words \cup Ports)

RECURSIVE TrimLeft(_)
TrimLeft(s) ==
    IF s # <<>> /\ Head(s) \in Spaces THEN TrimLeft(Tail(s)) ELSE s

RECURSIVE TrimRight(_)
TrimRight(s) ==
    IF s # <<>> /\ s[Len(s)] \in Spaces
    THEN TrimRight(SubSeq(s, 1, Len(s) - 1))
    ELSE s

RECURSIVE SkipSlashes(_)
SkipSlashes(s) ==
    IF s # <<>> /\ Head(s) = "/" THEN SkipSlashes(Tail(s)) ELSE s

\* the authority: what precedes the first "/"
RECURSIVE UpToSlash(_)
UpToSlash(s) ==
    IF s = <<>> \/ Head(s) = "/" THEN <<>> ELSE <<Head(s)>> \o UpToSlash(Tail(s))

\* the result of a failed parse (new URL throws TypeError)
ParseFailure == [ok |-> FALSE, protocol |-> "", hostname |-> ""]

\* host state and port state on a non-empty authority: host [":" [port]], the
\* host a name or a number, the port digits
AuthorityOk(auth) ==
    /\ auth[1] \in Words \cup Ports
    /\ Len(auth) >= 2 => auth[2] = ":"
    /\ Len(auth) >= 3 => auth[3] \in Ports
    /\ Len(auth) <= 3

\* new URL(raw), without a base
ParseURL(raw) ==
    LET s == TrimRight(TrimLeft(raw))
    IN  IF Len(s) < 2 \/ s[1] \notin Words \/ s[2] # ":"
        THEN ParseFailure
        ELSE LET scheme == Lower(s[1])
                 rest == SubSeq(s, 3, Len(s))
             IN  IF scheme \in SpecialSchemes
                 THEN LET auth == UpToSlash(SkipSlashes(rest))
                      IN  IF auth # <<>> /\ AuthorityOk(auth)
                          THEN [ok |-> TRUE, protocol |-> scheme,
                                hostname |-> Lower(auth[1])]
                          ELSE ParseFailure
                 ELSE IF Len(rest) >= 2 /\ rest[1] = "/" /\ rest[2] = "/"
                 THEN LET auth == UpToSlash(SubSeq(rest, 3, Len(rest)))
                      IN  IF auth = <<>>
                          THEN [ok |-> TRUE, protocol |-> scheme, hostname |-> ""]
                          ELSE IF AuthorityOk(auth)
                          THEN [ok |-> TRUE, protocol |-> scheme,
                                hostname |-> auth[1]]
                          ELSE ParseFailure
                 ELSE [ok |-> TRUE, protocol |-> scheme, hostname |-> ""]

\* a mutant of isAllowedDest: the protocol check is missing
isAllowedDestAnyScheme(raw, hostAllowlist) ==
    LET u == ParseURL(raw)
    IN  IF ~u.ok THEN FALSE
        ELSE IF hostAllowlist = {} THEN TRUE
        ELSE u.hostname \in hostAllowlist

\* a mutant of isAllowedDest: the allowlist is not consulted
isAllowedDestIgnoresList(raw, hostAllowlist) ==
    LET u == ParseURL(raw)
    IN  IF ~u.ok THEN FALSE
        ELSE u.protocol = "https" \/ u.protocol = "http"

isAllowedDest(raw, hostAllowlist) ==
    LET u == ParseURL(raw)
    IN  IF ~u.ok THEN FALSE
        ELSE IF u.protocol # "https" /\ u.protocol # "http" THEN FALSE
        ELSE IF hostAllowlist = {} THEN TRUE
        ELSE Lower(u.hostname) \in hostAllowlist

\* const rawDest = req.query.dest || fallback; const dest = isAllowedDest(rawDest) ? rawDest : fallback
ResolveDest(queryDest, hostAllowlist) ==
    LET rawDest == IF queryDest = <<>> THEN FALLBACK ELSE queryDest
    IN  IF isAllowedDest(rawDest, hostAllowlist) THEN rawDest ELSE FALLBACK


(***************************************************************************)
(* Requests.  A path is the sequence of its segments: "/" is <<>>,         *)
(* "/go/promo" is <<"go", "promo">>.                                       *)
(***************************************************************************)
Req(method, path, pass, dest, xff, peer, ua) ==
    [method |-> method, path |-> path, pass |-> pass, dest |-> dest,
     destMore |-> <<>>, xff |-> xff, peer |-> peer, ua |-> ua,
     bodyPass |-> NoHeader, queryPass |-> NoHeader]

\* the same request with a pass field in its form body and a pass parameter in
\* its query string (NoHeader: not given)
WithPass(req, bodyPass, queryPass) ==
    [req EXCEPT !.bodyPass = bodyPass, !.queryPass = queryPass]

\* the same request with the dest parameter repeated: ?dest=...&dest=...
RepeatDest(req, more) == [req EXCEPT !.destMore = more]

\* req.query.dest as the query parser delivers it: a string when the parameter
\* occurs once (the empty string when it is absent or empty), an array of
\* strings when it is repeated
QueryDest(req) ==
    [arr |-> req.destMore # <<>>, elems |-> <<req.dest>> \o req.destMore]

\* Array.prototype.join(",")
RECURSIVE Join(_)
Join(elems) ==
    IF Len(elems) = 1 THEN elems[1]
    ELSE elems[1] \o <<",">> \o Join(Tail(elems))

\* String(value): what new URL(value) parses and what res.location encodes
StringOf(v) == IF v.arr THEN Join(v.elems) ELSE v.elems[1]

\* String(dest) for the dest of the redirect handler
DestString(req, hostAllowlist) ==
    ResolveDest(StringOf(QueryDest(req)), hostAllowlist)

\* dest is rawDest, and rawDest is an array
DestIsArray(req, hostAllowlist) ==
    /\ QueryDest(req).arr
    /\ isAllowedDest(StringOf(QueryDest(req)), hostAllowlist)

\* pg's arrayString: the elements, each in double quotes, in braces
RECURSIVE QuotedElems(_)
QuotedElems(elems) ==
    IF Len(elems) = 1 THEN <<"\"">> \o elems[1] \o <<"\"">>
    ELSE <<"\"">> \o elems[1] \o <<"\"", ",">> \o QuotedElems(Tail(elems))

\* pg's prepareValue on the dest parameter of the INSERT: a string as it is,
\* an array as an array literal
PgDest(req, hostAllowlist) ==
    IF DestIsArray(req, hostAllowlist)
    THEN <<"{">> \o QuotedElems(QueryDest(req).elems) \o <<"}">>
    ELSE DestString(req, hostAllowlist)

\* encodeurl, applied by res.location: a space becomes %20
EncodeUrl(s) == [i \in DOMAIN s |-> IF s[i] = " " THEN "%20" ELSE s[i]]

\* req.path.startsWith("/admin")
StartsWithAdmin(path) == path # <<>> /\ path[1] = "admin"

\* the credential of the first variant of index.js:
\* (req.body && req.body.pass) || req.query.pass || req.get("x-admin-pass")
passFrom(req) ==
    IF req.bodyPass # NoHeader THEN req.bodyPass
    ELSE IF req.queryPass # NoHeader THEN req.queryPass
    ELSE req.pass

\* a mutant of adminOK: an absent header passes
adminOKAbsentPasses(req) == req.pass = ADMIN \/ req.pass = NoHeader

\* req.get("x-admin-pass") === ADMIN
adminOK(req) == req.pass = ADMIN

\* req.ip under app.set("trust proxy", 1): the address the one trusted proxy saw
ReqIp(req) == IF req.xff # <<>> THEN req.xff[Len(req.xff)] ELSE req.peer

\* (req.headers["x-forwarded-for"] || req.ip || "").split(",")[0].trim()
ClientIp(req) == IF req.xff # <<>> THEN req.xff[1] ELSE ReqIp(req)

\* the key express-rate-limit counts a request under (its default: req.ip)
LimiterKey(req) == ReqIp(req)

\* the route whose method and path match the request, in registration order
RouteOf(req) ==
    CASE req.method = "GET" /\ req.path = <<"status">> -> "status"
      [] req.method = "POST" /\ req.path = <<"admin", "kill">> -> "kill"
      [] req.method = "POST" /\ req.path = <<"admin", "unkill">> -> "unkill"
      [] req.method = "GET" /\ req.path = <<>> -> "root"
      [] req.method = "GET" /\ Len(req.path) = 2 /\ req.path[1] = "go" -> "go"
      [] req.method = "GET" /\ req.path = <<"admin", "export", "day">> -> "exportDay"
      [] req.method = "GET" /\ req.path = <<"admin", "export">> -> "export"
      [] req.method = "GET" /\ req.path = <<"admin", "last">> -> "last"
      [] req.method = "GET" /\ req.path = <<"admin", "stats">> -> "stats"
      [] req.method = "GET" /\ req.path = <<"metrics">> -> "metrics"
      [] OTHER -> "none"

\* app.use("/go", goLimiter): every method, every path under /go
UnderGo(req) == req.path # <<>> /\ req.path[1] = "go"

\* a mutant of GateBlocks: only the redirect path is gated
GateBlocksGoOnly(req) ==
    /\ RouteOf(req) # "status"
    /\ killed /\ UnderGo(req)

\* a mutant of GateBlocks: admin paths are not exempt
GateBlocksAdminToo(req) ==
    /\ RouteOf(req) # "status"
    /\ killed

\* the kill-switch middleware answers 503: it is registered after GET /status,
\* which therefore never reaches it
GateBlocks(req) ==
    /\ RouteOf(req) # "status"
    /\ killed /\ ~StartsWithAdmin(req.path)

\* the request reaches what is registered after the kill-switch middleware
PassesGate(req) == RouteOf(req) # "status" /\ ~GateBlocks(req)

(***************************************************************************)
(* Responses.  resp keeps the request, what was sent, and, as history, the *)
(* kill-switch state the request met when it was dispatched (sawKilled),   *)
(* the count the limiter gave it (nth, 0 when the limiter did not run) and *)
(* the components that ran for it (ran).                                   *)
(***************************************************************************)
NoReq == Req("", <<>>, NoHeader, <<>>, <<>>, "", "")

NoResp ==
    [req |-> NoReq, status |-> 0, body |-> "", loc |-> <<>>, ok |-> "",
     clicks |-> -1, rows |-> <<>>, sawKilled |-> FALSE, nth |-> 0, ran |-> {}]

\* a response sent in the step that dispatched the request
Sent(req, status, body, nth, ran) ==
    [req |-> req, status |-> status, body |-> body, loc |-> <<>>, ok |-> "",
     clicks |-> -1, rows |-> <<>>, sawKilled |-> killed, nth |-> nth,
     ran |-> ran]

\* the last two entries of the admin history, with op added
Push(hist, op) ==
    IF Len(hist) < 2 THEN Append(hist, op) ELSE <<hist[2], op>>

\* the process as `node index.js` leaves it: running, the schema initialisation
\* started when there is a pool, no signal received, the pool not ending;
\* wasKilled is history: the kill switch at the end of the run before
Booted(hasPool, n) ==
    [boots |-> n, running |-> TRUE, exitCode |-> -1,
     dbInit |-> IF hasPool THEN "pending" ELSE "none",
     signals |-> 0, ending |-> FALSE, closed |-> "no", wasKilled |-> FALSE]

\* the slug labels, the limiter keys
Slugs == {"promo", "sale"}
Peers == {"10.0.0.1"}
Clients == {"203.0.113.7"}
Keys == Peers \cup Clients

Init ==
    /\ killed = FALSE
    /\ adminHist = <<>>
    /\ pool \in BOOLEAN
    /\ allowlist \in {{}, {"example.com"}}
    /\ hits = [k \in Keys |-> 0]
    /\ clicks = <<>>
    /\ clicksTotal = [s \in Slugs |-> 0]
    /\ pending = <<>>
    /\ resp = NoResp
    /\ rawIn = <<>>
    /\ destOut = <<>>
    /\ proc = Booted(pool, 0)

(***************************************************************************)
(* GET /status: registered before the kill-switch middleware.  The count   *)
(* query and the response it feeds are one step.                           *)
(***************************************************************************)
StatusNoPool(req) ==
    /\ RouteOf(req) = "status"
    /\ ~pool
    /\ resp' = [Sent(req, 200, "status", 0, {"status"}) EXCEPT
                   !.ok = "true", !.clicks = 0]
    /\ UNCHANGED <<killed, adminHist, pool, allowlist, hits, clicks,
                   clicksTotal, pending, rawIn, destOut, proc>>

\* a mutant of StatusCount: the count is not read from the query's row
StatusCountZero(req) ==
    /\ RouteOf(req) = "status"
    /\ pool
    /\ resp' = [Sent(req, 200, "status", 0, {"status", "query"}) EXCEPT
                   !.ok = "true", !.clicks = 0]
    /\ UNCHANGED <<killed, adminHist, pool, allowlist, hits, clicks,
                   clicksTotal, pending, rawIn, destOut, proc>>

StatusCount(req) ==
    /\ RouteOf(req) = "status"
    /\ pool
    /\ resp' = [Sent(req, 200, "status", 0, {"status", "query"}) EXCEPT
                   !.ok = "true", !.clicks = Len(clicks)]
    /\ UNCHANGED <<killed, adminHist, pool, allowlist, hits, clicks,
                   clicksTotal, pending, rawIn, destOut, proc>>

\* the count query rejects: catch (e) { res.json({ ok: false, error: e.message }) }
StatusQueryFails(req) ==
    /\ RouteOf(req) = "status"
    /\ pool
    /\ resp' = [Sent(req, 200, "status-error", 0,
                     {"status", "query", "queryFailed"}) EXCEPT
                   !.ok = "false"]
    /\ UNCHANGED <<killed, adminHist, pool, allowlist, hits, clicks,
                   clicksTotal, pending, rawIn, destOut, proc>>

(***************************************************************************)
(* The kill switch.                                                        *)
(***************************************************************************)
KillGate(req) ==
    /\ GateBlocks(req)
    /\ resp' = Sent(req, 503, "Service unavailable", 0, {"gate"})
    /\ UNCHANGED <<killed, adminHist, pool, allowlist, hits, clicks,
                   clicksTotal, pending, rawIn, destOut, proc>>

\* a mutant of AdminKill: the flag is toggled instead of set
AdminKillToggles(req) ==
    /\ PassesGate(req)
    /\ RouteOf(req) = "kill"
    /\ IF ~adminOK(req)
       THEN /\ resp' = Sent(req, 403, "forbidden", 0, {"gate", "auth"})
            /\ UNCHANGED <<killed, adminHist>>
       ELSE /\ killed' = ~killed
            /\ adminHist' = Push(adminHist, "kill")
            /\ resp' = Sent(req, 200, "killed", 0, {"gate", "auth", "kill"})
    /\ UNCHANGED <<pool, allowlist, hits, clicks, clicksTotal, pending,
                   rawIn, destOut, proc>>

\* a mutant of AdminKill: the handler answers, the flag is left for later
AdminKillDeferred(req) ==
    /\ PassesGate(req)
    /\ RouteOf(req) = "kill"
    /\ IF ~adminOK(req)
       THEN /\ resp' = Sent(req, 403, "forbidden", 0, {"gate", "auth"})
            /\ UNCHANGED <<killed, adminHist>>
       ELSE /\ killed' = killed
            /\ adminHist' = Push(adminHist, "kill")
            /\ resp' = Sent(req, 200, "killed", 0, {"gate", "auth", "kill"})
    /\ UNCHANGED <<pool, allowlist, hits, clicks, clicksTotal, pending,
                   rawIn, destOut, proc>>

AdminKill(req) ==
    /\ PassesGate(req)
    /\ RouteOf(req) = "kill"
    /\ IF ~adminOK(req)
       THEN /\ resp' = Sent(req, 403, "forbidden", 0, {"gate", "auth"})
            /\ UNCHANGED <<killed, adminHist>>
       ELSE /\ killed' = TRUE
            /\ adminHist' = Push(adminHist, "kill")
            /\ resp' = Sent(req, 200, "killed", 0, {"gate", "auth", "kill"})
    /\ UNCHANGED <<pool, allowlist, hits, clicks, clicksTotal, pending,
                   rawIn, destOut, proc>>

\* a mutant of AdminUnkill: the limiter is mounted on every path
AdminUnkillCounted(req) ==
    /\ PassesGate(req)
    /\ RouteOf(req) = "unkill"
    /\ hits' = [hits EXCEPT ![ReqIp(req)] = @ + 1]
    /\ IF hits[ReqIp(req)] + 1 > RATE_MAX
       THEN /\ resp' = Sent(req, 429, "Too many requests",
                            hits[ReqIp(req)] + 1, {"gate", "limiter"})
            /\ UNCHANGED <<killed, adminHist>>
       ELSE IF ~adminOK(req)
       THEN /\ resp' = Sent(req, 403, "forbidden", 0, {"gate", "auth"})
            /\ UNCHANGED <<killed, adminHist>>
       ELSE /\ killed' = FALSE
            /\ adminHist' = Push(adminHist, "unkill")
            /\ resp' = Sent(req, 200, "un-killed", 0, {"gate", "auth", "unkill"})
    /\ UNCHANGED <<pool, allowlist, clicks, clicksTotal, pending,
                   rawIn, destOut, proc>>

\* a mutant of AdminUnkill: the flag is set to true, as in the kill handler
AdminUnkillStaysKilled(req) ==
    /\ PassesGate(req)
    /\ RouteOf(req) = "unkill"
    /\ IF ~adminOK(req)
       THEN /\ resp' = Sent(req, 403, "forbidden", 0, {"gate", "auth"})
            /\ UNCHANGED <<killed, adminHist>>
       ELSE /\ killed' = TRUE
            /\ adminHist' = Push(adminHist, "unkill")
            /\ resp' = Sent(req, 200, "un-killed", 0, {"gate", "auth", "unkill"})
    /\ UNCHANGED <<pool, allowlist, hits, clicks, clicksTotal, pending,
                   rawIn, destOut, proc>>

AdminUnkill(req) ==
    /\ PassesGate(req)
    /\ RouteOf(req) = "unkill"
    /\ IF ~adminOK(req)
       THEN /\ resp' = Sent(req, 403, "forbidden", 0, {"gate", "auth"})
            /\ UNCHANGED <<killed, adminHist>>
       ELSE /\ killed' = FALSE
            /\ adminHist' = Push(adminHist, "unkill")
            /\ resp' = Sent(req, 200, "un-killed", 0, {"gate", "auth", "unkill"})
    /\ UNCHANGED <<pool, allowlist, hits, clicks, clicksTotal, pending,
                   rawIn, destOut, proc>>

(***************************************************************************)
(* The kill and unkill handlers of the first variant of index.js, which    *)
(* take the credential from the form body, the query string or the header. *)
(***************************************************************************)
IndexAdminKill(req) ==
    /\ PassesGate(req)
    /\ RouteOf(req) = "kill"
    /\ IF passFrom(req) # ADMIN
       THEN /\ resp' = Sent(req, 403, "forbidden", 0, {"gate", "auth"})
            /\ UNCHANGED <<killed, adminHist>>
       ELSE /\ killed' = TRUE
            /\ adminHist' = Push(adminHist, "kill")
            /\ resp' = Sent(req, 200, "killed", 0, {"gate", "auth", "kill"})
    /\ UNCHANGED <<pool, allowlist, hits, clicks, clicksTotal, pending,
                   rawIn, destOut, proc>>

IndexAdminUnkill(req) ==
    /\ PassesGate(req)
    /\ RouteOf(req) = "unkill"
    /\ IF passFrom(req) # ADMIN
       THEN /\ resp' = Sent(req, 403, "forbidden", 0, {"gate", "auth"})
            /\ UNCHANGED <<killed, adminHist>>
       ELSE /\ killed' = FALSE
            /\ adminHist' = Push(adminHist, "unkill")
            /\ resp' = Sent(req, 200, "un-killed", 0, {"gate", "auth", "unkill"})
    /\ UNCHANGED <<pool, allowlist, hits, clicks, clicksTotal, pending,
                   rawIn, destOut, proc>>

(***************************************************************************)
(* GET /, GET /metrics, and requests no route matches.                     *)
(***************************************************************************)
Root(req) ==
    /\ PassesGate(req)
    /\ RouteOf(req) = "root"
    /\ resp' = Sent(req, 200, "greeting", 0, {"gate", "root"})
    /\ UNCHANGED <<killed, adminHist, pool, allowlist, hits, clicks,
                   clicksTotal, pending, rawIn, destOut, proc>>

Metrics(req) ==
    /\ PassesGate(req)
    /\ RouteOf(req) = "metrics"
    /\ resp' = Sent(req, 200, "metrics", 0, {"gate", "metrics"})
    /\ UNCHANGED <<killed, adminHist, pool, allowlist, hits, clicks,
                   clicksTotal, pending, rawIn, destOut, proc>>

NotFound(req) ==
    /\ PassesGate(req)
    /\ RouteOf(req) = "none"
    /\ ~UnderGo(req)
    /\ resp' = Sent(req, 404, "not found", 0, {"gate"})
    /\ UNCHANGED <<killed, adminHist, pool, allowlist, hits, clicks,
                   clicksTotal, pending, rawIn, destOut, proc>>

(***************************************************************************)
(* The rate limiter, app.use("/go", goLimiter): it counts the request      *)
(* under its key, then rejects it if the count exceeds max.                *)
(***************************************************************************)
\* clicksTotal.inc({ slug }, 1)
IncClicks(slug) == clicksTotal' = [clicksTotal EXCEPT ![slug] = @ + 1]

\* the count the limiter gives the request
Counted(req) == hits[LimiterKey(req)] + 1

\* a mutant of LimiterAllows: the threshold itself is rejected
LimiterAllowsBelowMax(n) == n < RATE_MAX

\* totalHits <= max
LimiterAllows(n) == n <= RATE_MAX

\* a mutant of CountHit: an increment made while another request is in flight
\* is lost
CountHitLostUpdate(req) ==
    hits' = [hits EXCEPT ![LimiterKey(req)] =
                IF pending # <<>> THEN @ ELSE Counted(req)]

CountHit(req) == hits' = [hits EXCEPT ![LimiterKey(req)] = Counted(req)]

\* a mutant of RateLimited: the limiter sits after the metric increment
RateLimitedAfterMetric(req) ==
    /\ PassesGate(req)
    /\ UnderGo(req)
    /\ ~LimiterAllows(Counted(req))
    /\ CountHit(req)
    /\ IncClicks("promo")
    /\ resp' = Sent(req, 429, "Too many requests", Counted(req),
                    {"gate", "limiter"})
    /\ UNCHANGED <<killed, adminHist, pool, allowlist, clicks, pending,
                   rawIn, destOut, proc>>

RateLimited(req) ==
    /\ PassesGate(req)
    /\ UnderGo(req)
    /\ ~LimiterAllows(Counted(req))
    /\ CountHit(req)
    /\ resp' = Sent(req, 429, "Too many requests", Counted(req),
                    {"gate", "limiter"})
    /\ UNCHANGED <<killed, adminHist, pool, allowlist, clicks, clicksTotal,
                   pending, rawIn, destOut, proc>>

\* a mutant of GoUnrouted: the slug is optional, a request without one is redirected
GoUnroutedRedirects(req) ==
    /\ PassesGate(req)
    /\ UnderGo(req)
    /\ LimiterAllows(Counted(req))
    /\ RouteOf(req) = "none"
    /\ CountHit(req)
    /\ resp' = [Sent(req, 302, "redirect", Counted(req),
                     {"gate", "limiter", "validator"}) EXCEPT
                   !.loc = FALLBACK]
    /\ UNCHANGED <<killed, adminHist, pool, allowlist, clicks, clicksTotal,
                   pending, rawIn, destOut, proc>>

\* under /go but not GET /go/:slug (no slug, or another method): counted, then 404
GoUnrouted(req) ==
    /\ PassesGate(req)
    /\ UnderGo(req)
    /\ LimiterAllows(Counted(req))
    /\ RouteOf(req) = "none"
    /\ CountHit(req)
    /\ resp' = Sent(req, 404, "not found", Counted(req), {"gate", "limiter"})
    /\ UNCHANGED <<killed, adminHist, pool, allowlist, clicks, clicksTotal,
                   pending, rawIn, destOut, proc>>

\* the window of a key ends: the store forgets its count
WindowReset(key) ==
    /\ hits[key] > 0
    /\ hits' = [hits EXCEPT ![key] = 0]
    /\ UNCHANGED <<killed, adminHist, pool, allowlist, clicks, clicksTotal,
                   pending, resp, rawIn, destOut, proc>>

(***************************************************************************)
(* GET /go/:slug.                                                          *)
(***************************************************************************)
\* res.redirect(302, dest)
Redirect(req, dest, sawKilled, nth, ran) ==
    [req |-> req, status |-> 302, body |-> "redirect", loc |-> EncodeUrl(dest),
     ok |-> "", clicks |-> -1, rows |-> <<>>, sawKilled |-> sawKilled,
     nth |-> nth, ran |-> ran]

\* pool is null: nothing is awaited, the handler runs through
GoNoPool(req) ==
    /\ PassesGate(req)
    /\ UnderGo(req)
    /\ LimiterAllows(Counted(req))
    /\ RouteOf(req) = "go"
    /\ ~pool
    /\ CountHit(req)
    /\ IncClicks(req.path[2])
    /\ resp' = Redirect(req, DestString(req, allowlist), killed,
                        Counted(req),
                        {"gate", "limiter", "validator", "metric"})
    /\ UNCHANGED <<killed, adminHist, pool, allowlist, clicks, pending,
                   rawIn, destOut, proc>>

\* pool is set: the handler runs up to `await pool.query(INSERT ...)`
GoDispatch(req) ==
    /\ PassesGate(req)
    /\ UnderGo(req)
    /\ LimiterAllows(Counted(req))
    /\ RouteOf(req) = "go"
    /\ pool
    /\ CountHit(req)
    /\ pending' = Append(pending,
                    [req |-> req,
                     slug |-> req.path[2],
                     dest |-> DestString(req, allowlist),
                     stored |-> PgDest(req, allowlist),
                     ip |-> ClientIp(req),
                     ua |-> req.ua,
                     sawKilled |-> killed,
                     nth |-> Counted(req),
                     hung |-> FALSE])
    /\ UNCHANGED <<killed, adminHist, pool, allowlist, clicks, clicksTotal,
                   resp, rawIn, destOut, proc>>

Without(seq, i) == SubSeq(seq, 1, i - 1) \o SubSeq(seq, i + 1, Len(seq))

\* a mutant of GoInsertOk: the kill switch is read again after the await
GoInsertOkRechecksGate(i) ==
    /\ i \in DOMAIN pending
    /\ ~pending[i].hung
    /\ LET p == pending[i]
       IN  IF killed
           THEN /\ resp' = [req |-> p.req, status |-> 503,
                            body |-> "Service unavailable", loc |-> <<>>,
                            ok |-> "", clicks |-> -1, rows |-> <<>>,
                            sawKilled |-> p.sawKilled, nth |-> p.nth,
                            ran |-> {"gate", "limiter", "validator", "insert"}]
                /\ UNCHANGED <<clicks, clicksTotal>>
           ELSE /\ clicks' = Append(clicks,
                               [id |-> Len(clicks) + 1, slug |-> p.slug,
                                dest |-> p.stored, ip |-> p.ip, ua |-> p.ua])
                /\ IncClicks(p.slug)
                /\ resp' = Redirect(p.req, p.dest, p.sawKilled, p.nth,
                             {"gate", "limiter", "validator", "insert",
                              "metric"})
    /\ pending' = Without(pending, i)
    /\ UNCHANGED <<killed, adminHist, pool, allowlist, hits, rawIn, destOut,
                   proc>>

\* a mutant of GoInsertOk: the row is written over the row stored last
GoInsertOkOverwrites(i) ==
    /\ i \in DOMAIN pending
    /\ ~pending[i].hung
    /\ LET p == pending[i]
           n == IF clicks = <<>> THEN 1 ELSE Len(clicks)
       IN  /\ clicks' = SubSeq(clicks, 1, n - 1) \o
                          <<[id |-> n, slug |-> p.slug,
                             dest |-> p.stored, ip |-> p.ip, ua |-> p.ua]>>
           /\ IncClicks(p.slug)
           /\ resp' = Redirect(p.req, p.dest, p.sawKilled, p.nth,
                        {"gate", "limiter", "validator", "insert", "metric"})
    /\ pending' = Without(pending, i)
    /\ UNCHANGED <<killed, adminHist, pool, allowlist, hits, rawIn, destOut,
                   proc>>

\* the insert resolves: the row is stored, the handler goes on to the 302
GoInsertOk(i) ==
    /\ i \in DOMAIN pending
    /\ ~pending[i].hung
    /\ LET p == pending[i]
       IN  /\ clicks' = Append(clicks,
                          [id |-> Len(clicks) + 1, slug |-> p.slug,
                           dest |-> p.stored, ip |-> p.ip, ua |-> p.ua])
           /\ IncClicks(p.slug)
           /\ resp' = Redirect(p.req, p.dest, p.sawKilled, p.nth,
                        {"gate", "limiter", "validator", "insert", "metric"})
    /\ pending' = Without(pending, i)
    /\ UNCHANGED <<killed, adminHist, pool, allowlist, hits, rawIn, destOut, proc>>

\* a mutant of GoInsertFails: no try / catch, the error reaches the response
GoInsertFailsSurfaced(i) ==
    /\ i \in DOMAIN pending
    /\ ~pending[i].hung
    /\ LET p == pending[i]
       IN  resp' = [req |-> p.req, status |-> 500, body |-> "error",
                    loc |-> <<>>, ok |-> "", clicks |-> -1, rows |-> <<>>,
                    sawKilled |-> p.sawKilled, nth |-> p.nth,
                    ran |-> {"gate", "limiter", "validator", "insert",
                             "insertFailed"}]
    /\ pending' = Without(pending, i)
    /\ UNCHANGED <<killed, adminHist, pool, allowlist, hits, clicks,
                   clicksTotal, rawIn, destOut, proc>>

\* a mutant of GoInsertFails: the metric is incremented inside try, after the insert
GoInsertFailsUncounted(i) ==
    /\ i \in DOMAIN pending
    /\ ~pending[i].hung
    /\ LET p == pending[i]
       IN  resp' = Redirect(p.req, p.dest, p.sawKilled, p.nth,
                        {"gate", "limiter", "validator", "insert", "insertFailed"})
    /\ pending' = Without(pending, i)
    /\ UNCHANGED <<killed, adminHist, pool, allowlist, hits, clicks,
                   clicksTotal, rawIn, destOut, proc>>

\* the insert rejects: catch (e) logs it, the handler goes on to the 302
GoInsertFails(i) ==
    /\ i \in DOMAIN pending
    /\ ~pending[i].hung
    /\ LET p == pending[i]
       IN  /\ IncClicks(p.slug)
           /\ resp' = Redirect(p.req, p.dest, p.sawKilled, p.nth,
                        {"gate", "limiter", "validator", "insert", "insertFailed",
                         "metric"})
    /\ pending' = Without(pending, i)
    /\ UNCHANGED <<killed, adminHist, pool, allowlist, hits, clicks,
                   rawIn, destOut, proc>>

\* the insert never settles: the query has no client-side timeout, and the
\* handler stays at its await
GoInsertHangs(i) ==
    /\ i \in DOMAIN pending
    /\ ~pending[i].hung
    /\ pending' = [pending EXCEPT ![i].hung = TRUE]
    /\ UNCHANGED <<killed, adminHist, pool, allowlist, hits, clicks,
                   clicksTotal, resp, rawIn, destOut, proc>>

(***************************************************************************)
(* The admin query and export routes.  Each handler authenticates, then,   *)
(* inside try / catch, awaits one query and builds the response from its   *)
(* rows; the query and the response it feeds are one step.  Timestamps are *)
(* not part of the model.                                                  *)
(***************************************************************************)
Min(a, b) == IF a <= b THEN a ELSE b

\* ORDER BY id DESC LIMIT n
LatestFirst(table, n) ==
    [i \in 1..Min(n, Len(table)) |-> table[Len(table) + 1 - i]]

\* SELECT * FROM clicks ORDER BY id DESC LIMIT 1000
ExportRows(table) == LatestFirst(table, EXPORT_LIMIT)

\* SELECT ts, slug, left(dest,60) AS dest FROM clicks ORDER BY id DESC LIMIT 5;
\* every destination of the model is shorter than 60 characters, so that
\* left(dest,60) is the whole of it
LastRows(table) ==
    LET rows == LatestFirst(table, LAST_LIMIT)
    IN  [i \in DOMAIN rows |-> [slug |-> rows[i].slug, dest |-> rows[i].dest]]

\* count(*) of the group of slug s
HitsOf(table, s) == Cardinality({i \in DOMAIN table : table[i].slug = s})

\* the slugs that have a group
SlugsOf(table) == {table[i].slug : i \in DOMAIN table}

\* a mutant of StatsResults: ORDER BY hits, ascending
StatsResultsAscending(table) ==
    LET k == Cardinality(SlugsOf(table))
    IN  {[i \in 1..k |-> [slug |-> order[i], hits |-> HitsOf(table, order[i])]] :
            order \in {o \in [1..k -> SlugsOf(table)] :
                         /\ \A i, j \in 1..k : i # j => o[i] # o[j]
                         /\ \A i \in 1..(k - 1) :
                               HitsOf(table, o[i]) <= HitsOf(table, o[i + 1])}}

\* SELECT slug, count(*)::int AS hits FROM clicks GROUP BY slug ORDER BY hits DESC:
\* one row per slug; the order among equal counts is the database's choice
StatsResults(table) ==
    LET k == Cardinality(SlugsOf(table))
    IN  {[i \in 1..k |-> [slug |-> order[i], hits |-> HitsOf(table, order[i])]] :
            order \in {o \in [1..k -> SlugsOf(table)] :
                         /\ \A i, j \in 1..k : i # j => o[i] # o[j]
                         /\ \A i \in 1..(k - 1) :
                               HitsOf(table, o[i]) >= HitsOf(table, o[i + 1])}}

\* the subsequences of a table, in id order
RECURSIVE SubSeqsOf(_)
SubSeqsOf(table) ==
    IF table = <<>> THEN {<<>>}
    ELSE LET rest == SubSeqsOf(Tail(table))
         IN  rest \cup {<<Head(table)>> \o r : r \in rest}

\* SELECT ... FROM clicks WHERE ts::date = $1::date ORDER BY id: the rows of
\* one day, which may be any of the rows
DayResults(table) == SubSeqsOf(table)

\* a mutant of Forbidden: the response tells an absent credential from a wrong one
ForbiddenTellsWhy(req) ==
    IF req.pass = NoHeader
    THEN [req |-> req, status |-> 401, body |-> "credential required",
          loc |-> <<>>, ok |-> "", clicks |-> -1, rows |-> <<>>,
          sawKilled |-> killed, nth |-> 0, ran |-> {"gate", "auth"}]
    ELSE [req |-> req, status |-> 403, body |-> "forbidden",
          loc |-> <<>>, ok |-> "", clicks |-> -1, rows |-> <<>>,
          sawKilled |-> killed, nth |-> 0, ran |-> {"gate", "auth"}]

\* if (!adminOK(req)) return res.status(403).send("forbidden")
Forbidden(req) ==
    [req |-> req, status |-> 403, body |-> "forbidden",
     loc |-> <<>>, ok |-> "", clicks |-> -1, rows |-> <<>>,
     sawKilled |-> killed, nth |-> 0, ran |-> {"gate", "auth"}]

\* a mutant of QueryAnswer: without storage the handler answers an empty document
QueryAnswerEmptyWithoutPool(req, rejects, rows, csv, errorBody) ==
    IF ~adminOK(req) THEN Forbidden(req)
    ELSE IF ~pool
    THEN Sent(req, 200, "rows", 0, {"gate", "auth"})
    ELSE IF rejects
    THEN Sent(req, 500, errorBody, 0, {"gate", "auth", "query", "queryFailed"})
    ELSE IF csv /\ rows = <<>>
    THEN Sent(req, 500, errorBody, 0, {"gate", "auth", "query", "csvFailed"})
    ELSE [Sent(req, 200, "rows", 0, {"gate", "auth", "query"}) EXCEPT
             !.rows = rows]

\* the body of an admin query handler.  Not authenticated: 403.  pool null:
\* pool.query throws a TypeError inside try, the catch answers 500 with its
\* message.  The query rejects: the same catch.  csv: new Parser().parse(rows)
\* throws on an empty array when no fields are given, the same catch.
QueryAnswer(req, rejects, rows, csv, errorBody) ==
    IF ~adminOK(req) THEN Forbidden(req)
    ELSE IF ~pool
    THEN Sent(req, 500, errorBody, 0, {"gate", "auth", "threw"})
    ELSE IF rejects
    THEN Sent(req, 500, errorBody, 0, {"gate", "auth", "query", "queryFailed"})
    ELSE IF csv /\ rows = <<>>
    THEN Sent(req, 500, errorBody, 0, {"gate", "auth", "query", "csvFailed"})
    ELSE [Sent(req, 200, "rows", 0, {"gate", "auth", "query"}) EXCEPT
             !.rows = rows]

AdminExportDay(req, rejects) ==
    /\ PassesGate(req)
    /\ RouteOf(req) = "exportDay"
    /\ \E rows \in DayResults(clicks) :
          resp' = QueryAnswer(req, rejects, rows, TRUE, "export error")
    /\ UNCHANGED <<killed, adminHist, pool, allowlist, hits, clicks,
                   clicksTotal, pending, rawIn, destOut, proc>>

AdminExport(req, rejects) ==
    /\ PassesGate(req)
    /\ RouteOf(req) = "export"
    /\ resp' = QueryAnswer(req, rejects, ExportRows(clicks), TRUE,
                           "error exporting CSV")
    /\ UNCHANGED <<killed, adminHist, pool, allowlist, hits, clicks,
                   clicksTotal, pending, rawIn, destOut, proc>>

AdminLast(req, rejects) ==
    /\ PassesGate(req)
    /\ RouteOf(req) = "last"
    /\ resp' = QueryAnswer(req, rejects, LastRows(clicks), FALSE, "error")
    /\ UNCHANGED <<killed, adminHist, pool, allowlist, hits, clicks,
                   clicksTotal, pending, rawIn, destOut, proc>>

AdminStats(req, rejects) ==
    /\ PassesGate(req)
    /\ RouteOf(req) = "stats"
    /\ \E rows \in StatsResults(clicks) :
          resp' = QueryAnswer(req, rejects, rows, FALSE, "error")
    /\ UNCHANGED <<killed, adminHist, pool, allowlist, hits, clicks,
                   clicksTotal, pending, rawIn, destOut, proc>>

(***************************************************************************)
(* The service: every route, a small set of requests.                      *)
(***************************************************************************)
EvilDest == <<"https", ":", "/", "/", "evil.example">>

Plain(method, path) ==
    Req(method, path, NoHeader, <<>>, <<>>, "10.0.0.1", "curl")

Requests ==
    {Plain("GET", p) : p \in {<<>>, <<"status">>, <<"metrics">>,
                              <<"go">>, <<"admin", "nope">>}}
    \cup {Plain("POST", <<"status">>)}
    \cup {Req("GET", <<"go", "promo">>, NoHeader, EvilDest, <<>>, "10.0.0.1", "curl")}
    \cup {Req("POST", p, c, <<>>, <<>>, "10.0.0.1", "curl") :
             p \in {<<"admin", "kill">>, <<"admin", "unkill">>},
             c \in {NoHeader, ADMIN, "wrong"}}

\* the 302 responses sent or still owed
Redirects == clicksTotal["promo"] + clicksTotal["sale"] + Len(pending)

\* the bounds on a /go request of the service specification
GoBounded(req) ==
    /\ hits[LimiterKey(req)] < MaxHits
    /\ Redirects < MaxHits

Next ==
    \/ \E req \in Requests :
          \/ StatusNoPool(req)
          \/ StatusCount(req)
          \/ StatusQueryFails(req)
          \/ KillGate(req)
          \/ AdminKill(req)
          \/ AdminUnkill(req)
          \/ Root(req)
          \/ Metrics(req)
          \/ NotFound(req)
          \/ GoBounded(req) /\ GoUnrouted(req)
          \/ GoBounded(req) /\ GoNoPool(req)
          \/ GoBounded(req) /\ Len(pending) < MaxInflight /\ GoDispatch(req)
    \/ \E i \in DOMAIN pending :
          \/ Len(clicks) < MaxClicks /\ GoInsertOk(i)
          \/ GoInsertFails(i)
    \/ \E key \in Keys : WindowReset(key)

Spec == Init /\ [][Next]_vars

(***************************************************************************)
(* The limiter at its threshold: one client on the redirect path, through  *)
(* a whole window and past it.                                             *)
(***************************************************************************)
LimiterRequests == {Plain("GET", <<"go", "promo">>)}

InitLimiter ==
    /\ Init
    /\ allowlist = {}

\* the bounds on a /go request of the limiter specification; the client sends
\* its next request when the one before is answered
BurstBounded(req) ==
    /\ hits[LimiterKey(req)] < RATE_MAX + MaxOver
    /\ Redirects < RATE_MAX + MaxOver
    /\ pending = <<>>

NextLimiter ==
    \/ \E req \in LimiterRequests :
          \/ BurstBounded(req) /\ RateLimited(req)
          \/ BurstBounded(req) /\ GoNoPool(req)
          \/ BurstBounded(req) /\ GoDispatch(req)
    \/ \E i \in DOMAIN pending :
          \/ Len(clicks) < MaxClicks /\ GoInsertOk(i)
          \/ GoInsertFails(i)
    \/ \E key \in Keys : WindowReset(key)

SpecLimiter == InitLimiter /\ [][NextLimiter]_vars

(***************************************************************************)
(* The limiter under concurrent requests of one client: the window already *)
(* holds all but MaxOver of the requests the limiter allows, each answered *)
(* 302 after its insert failed; further requests arrive while earlier ones *)
(* still wait for their insert, and the same client calls the routes off   *)
(* the redirect path.                                                      *)
(***************************************************************************)
InitConcurrent ==
    /\ killed = FALSE
    /\ adminHist = <<>>
    /\ pool \in BOOLEAN
    /\ allowlist = {}
    /\ hits = [k \in Keys |->
                 IF k = "10.0.0.1" THEN RATE_MAX - MaxOver ELSE 0]
    /\ clicks = <<>>
    /\ clicksTotal = [s \in Slugs |->
                        IF s = "promo" THEN RATE_MAX - MaxOver ELSE 0]
    /\ pending = <<>>
    /\ resp = NoResp
    /\ rawIn = <<>>
    /\ destOut = <<>>
    /\ proc = Booted(pool, 0)

ConcurrentRequests ==
    {Plain("GET", <<"go", s>>) : s \in Slugs}
    \cup {Plain("GET", <<>>), Plain("GET", <<"status">>)}
    \cup {Req("POST", p, ADMIN, <<>>, <<>>, "10.0.0.1", "curl") :
             p \in {<<"admin", "kill">>, <<"admin", "unkill">>}}

\* the bound on a /go request of this specification
ConcurrentBounded(req) == hits[LimiterKey(req)] < RATE_MAX + MaxOver

NextConcurrent ==
    \/ \E req \in ConcurrentRequests :
          \/ StatusNoPool(req)
          \/ StatusCount(req)
          \/ StatusQueryFails(req)
          \/ KillGate(req)
          \/ AdminKill(req)
          \/ AdminUnkill(req)
          \/ Root(req)
          \/ ConcurrentBounded(req) /\ RateLimited(req)
          \/ ConcurrentBounded(req) /\ GoNoPool(req)
          \/ ConcurrentBounded(req) /\ Len(pending) <= MaxInflight
                /\ GoDispatch(req)
    \/ \E i \in DOMAIN pending :
          \/ Len(clicks) < MaxClicks /\ GoInsertOk(i)
          \/ GoInsertFails(i)

SpecConcurrent == InitConcurrent /\ [][NextConcurrent]_vars

(***************************************************************************)
(* Client identity: requests that arrive directly, through the one trusted *)
(* proxy, and through a chain of two proxies, where the forwarded-for      *)
(* header names the client first and the hop the trusted proxy saw last.   *)
(***************************************************************************)
ForwardedFor ==
    {<<>>, <<"203.0.113.7">>, <<"203.0.113.7", "10.0.0.1">>,
     <<"198.51.100.9", "10.0.0.1">>}

IdentityRequests ==
    {Req("GET", <<"go", "promo">>, NoHeader, <<>>, x, "10.0.0.1", "curl") :
        x \in ForwardedFor}

NextIdentity ==
    \/ \E req \in IdentityRequests :
          \/ GoBounded(req) /\ GoNoPool(req)
          \/ GoBounded(req) /\ Len(pending) < MaxInflight /\ GoDispatch(req)
    \/ \E i \in DOMAIN pending :
          \/ Len(clicks) < MaxClicks /\ GoInsertOk(i)
          \/ GoInsertFails(i)
    \/ \E key \in Keys : WindowReset(key)

SpecIdentity == InitLimiter /\ [][NextIdentity]_vars

(***************************************************************************)
(* The redirect path on its own, the service LIVE: slugs, a request        *)
(* without slug, dest absent, given once, given with a leading space,      *)
(* given twice.                                                            *)
(***************************************************************************)
\* ?dest=https://example.com/&dest=evil.example
TwoDests ==
    RepeatDest(Req("GET", <<"go", "promo">>, NoHeader,
                   <<"https", ":", "/", "/", "example.com", "/">>,
                   <<>>, "10.0.0.1", "curl"),
               <<<<"evil.example">>>>)

\* ?dest=%20https://example.com
SpaceDest == <<" ", "https", ":", "/", "/", "example.com">>

RedirectRequests ==
    {Plain("GET", <<"go">>), Plain("GET", <<"go", "sale">>), TwoDests}
    \cup {Req("GET", <<"go", "promo">>, NoHeader, d, <<>>, "10.0.0.1", "curl") :
             d \in {EvilDest, SpaceDest}}

NextRedirect ==
    \/ \E req \in RedirectRequests :
          \/ GoBounded(req) /\ GoUnrouted(req)
          \/ GoBounded(req) /\ GoNoPool(req)
          \/ GoBounded(req) /\ Len(pending) < MaxInflight /\ GoDispatch(req)
    \/ \E i \in DOMAIN pending :
          \/ Len(clicks) < MaxClicks /\ GoInsertOk(i)
          \/ GoInsertFails(i)
    \/ \E key \in Keys : WindowReset(key)

SpecRedirect == Init /\ [][NextRedirect]_vars

(***************************************************************************)
(* The redirect path with a store that may leave an insert unanswered.     *)
(* The store settles every query it does not leave hanging: the event loop *)
(* runs the continuation of an await whose promise has settled.            *)
(***************************************************************************)
NextRedirectHang ==
    \/ NextRedirect
    \/ \E i \in DOMAIN pending : GoInsertHangs(i)

InsertSettles == \E i \in DOMAIN pending : GoInsertOk(i) \/ GoInsertFails(i)

SpecRedirectHang ==
    Init /\ [][NextRedirectHang]_vars /\ WF_vars(InsertSettles)

(***************************************************************************)
(* The admin surface: redirects fill the table, the admin queries read it, *)
(* the kill switch is thrown and released.                                 *)
(***************************************************************************)
AdminQueryPaths ==
    {<<"admin", "export", "day">>, <<"admin", "export">>,
     <<"admin", "last">>, <<"admin", "stats">>}

AdminRequests ==
    {Plain("GET", <<"go", s>>) : s \in Slugs}
    \cup {Req("POST", p, ADMIN, <<>>, <<>>, "10.0.0.1", "curl") :
             p \in {<<"admin", "kill">>, <<"admin", "unkill">>}}
    \cup {Req("GET", p, c, <<>>, <<>>, "10.0.0.1", "curl") :
             p \in AdminQueryPaths, c \in {NoHeader, ADMIN, "wrong"}}

InitAdmin ==
    /\ Init
    /\ allowlist = {}

NextAdmin ==
    \/ \E req \in AdminRequests :
          \/ KillGate(req)
          \/ AdminKill(req)
          \/ AdminUnkill(req)
          \/ GoBounded(req) /\ GoNoPool(req)
          \/ GoBounded(req) /\ Len(pending) < MaxInflight /\ GoDispatch(req)
          \/ \E rejects \in BOOLEAN :
                \/ AdminExportDay(req, rejects)
                \/ AdminExport(req, rejects)
                \/ AdminLast(req, rejects)
                \/ AdminStats(req, rejects)
    \/ \E i \in DOMAIN pending :
          \/ Len(clicks) < MaxClicks /\ GoInsertOk(i)
          \/ GoInsertFails(i)

SpecAdmin == InitAdmin /\ [][NextAdmin]_vars

(***************************************************************************)
(* The kill switch of the first variant of index.js, with a credential in  *)
(* any of the three channels.                                              *)
(***************************************************************************)
Credentials == {NoHeader, ADMIN, "wrong"}

ChannelRequests ==
    {Plain("GET", <<>>)}
    \cup {WithPass(Req("POST", p, h, <<>>, <<>>, "10.0.0.1", "curl"), b, q) :
             p \in {<<"admin", "kill">>, <<"admin", "unkill">>},
             h \in Credentials, b \in Credentials, q \in Credentials}

NextIndexAdmin ==
    \E req \in ChannelRequests :
        \/ KillGate(req)
        \/ Root(req)
        \/ IndexAdminKill(req)
        \/ IndexAdminUnkill(req)

SpecIndexAdmin == InitAdmin /\ [][NextIndexAdmin]_vars

(***************************************************************************)
(* The debug routes of the first variant of index.js, registered under     *)
(* /admin after its kill and unkill handlers.                              *)
(***************************************************************************)
\* the route of the first variant that matches the request
IndexRouteOf(req) ==
    CASE req.method = "GET" /\ req.path = <<"admin", "_envcheck">> -> "envcheck"
      [] req.method = "GET" /\ req.path = <<"admin", "_dbcheck">> -> "dbcheck"
      [] OTHER -> RouteOf(req)

\* GET /admin/_envcheck: res.json({ hasDB, hasAdminPass }); the credential is
\* not looked at.  ok carries hasDB
IndexEnvCheck(req) ==
    /\ PassesGate(req)
    /\ IndexRouteOf(req) = "envcheck"
    /\ resp' = [Sent(req, 200, "envcheck", 0, {"gate", "envcheck"}) EXCEPT
                   !.ok = IF pool THEN "true" ELSE "false"]
    /\ UNCHANGED <<killed, adminHist, pool, allowlist, hits, clicks,
                   clicksTotal, pending, rawIn, destOut, proc>>

\* GET /admin/_dbcheck: 500 without pool, else `select now()` and its result
\* or its error message; the credential is not looked at
IndexDbCheck(req, rejects) ==
    /\ PassesGate(req)
    /\ IndexRouteOf(req) = "dbcheck"
    /\ resp' = IF ~pool
               THEN [Sent(req, 500, "no pool", 0, {"gate", "dbcheck"}) EXCEPT
                        !.ok = "false"]
               ELSE IF rejects
               THEN [Sent(req, 500, "dbcheck-error", 0,
                          {"gate", "dbcheck", "query", "queryFailed"}) EXCEPT
                        !.ok = "false"]
               ELSE [Sent(req, 200, "dbcheck", 0,
                          {"gate", "dbcheck", "query"}) EXCEPT
                        !.ok = "true"]
    /\ UNCHANGED <<killed, adminHist, pool, allowlist, hits, clicks,
                   clicksTotal, pending, rawIn, destOut, proc>>

DebugRequests ==
    ChannelRequests
    \cup {Req("GET", p, c, <<>>, <<>>, "10.0.0.1", "curl") :
             p \in {<<"admin", "_envcheck">>, <<"admin", "_dbcheck">>},
             c \in Credentials}

NextIndexDebug ==
    \E req \in DebugRequests :
        \/ KillGate(req)
        \/ Root(req)
        \/ IndexAdminKill(req)
        \/ IndexAdminUnkill(req)
        \/ IndexEnvCheck(req)
        \/ \E rejects \in BOOLEAN : IndexDbCheck(req, rejects)

SpecIndexDebug == InitAdmin /\ [][NextIndexDebug]_vars

(***************************************************************************)
(* The export over a table that earlier runs of the service have filled:   *)
(* empty, short, and up to MaxOver rows longer than the export's limit.    *)
(***************************************************************************)
\* a clicks table of n rows
TableOf(n) ==
    [i \in 1..n |-> [id |-> i, slug |-> "promo", dest |-> FALLBACK,
                     ip |-> "10.0.0.1", ua |-> "curl"]]

ExportRequests ==
    {Req("GET", <<"admin", "export">>, c, <<>>, <<>>, "10.0.0.1", "curl") :
        c \in {ADMIN, "wrong"}}

InitExport ==
    /\ killed = FALSE
    /\ adminHist = <<>>
    /\ pool = TRUE
    /\ allowlist = {}
    /\ hits = [k \in Keys |-> 0]
    /\ clicks \in {TableOf(n) : n \in 0..(EXPORT_LIMIT + MaxOver)}
    /\ clicksTotal = [s \in Slugs |-> 0]
    /\ pending = <<>>
    /\ resp = NoResp
    /\ rawIn = <<>>
    /\ destOut = <<>>
    /\ proc = Booted(pool, 0)

NextExport ==
    \E req \in ExportRequests, rejects \in BOOLEAN : AdminExport(req, rejects)

SpecExport == InitExport /\ [][NextExport]_vars

(***************************************************************************)
(* The statistics over a table that earlier runs of the service have       *)
(* filled: every sequence of up to MaxRows rows over three slugs.          *)
(***************************************************************************)
StoredSlugs == {"promo", "sale", "news"}

\* a clicks table with the given slugs, in id order
TableOfSlugs(slugs) ==
    [i \in DOMAIN slugs |-> [id |-> i, slug |-> slugs[i], dest |-> FALLBACK,
                             ip |-> "10.0.0.1", ua |-> "curl"]]

StatsRequests ==
    {Req("GET", <<"admin", "stats">>, c, <<>>, <<>>, "10.0.0.1", "curl") :
        c \in {ADMIN, "wrong"}}

InitStats ==
    /\ killed = FALSE
    /\ adminHist = <<>>
    /\ pool = TRUE
    /\ allowlist = {}
    /\ hits = [k \in Keys |-> 0]
    /\ clicks \in {TableOfSlugs(sl) :
                      sl \in UNION {[1..n -> StoredSlugs] : n \in 0..MaxRows}}
    /\ clicksTotal = [s \in Slugs |-> 0]
    /\ pending = <<>>
    /\ resp = NoResp
    /\ rawIn = <<>>
    /\ destOut = <<>>
    /\ proc = Booted(pool, 0)

NextStats ==
    \E req \in StatsRequests, rejects \in BOOLEAN : AdminStats(req, rejects)

SpecStats == InitStats /\ [][NextStats]_vars

(***************************************************************************)
(* The destination validator on its own: every raw destination of up to    *)
(* MaxLen tokens, resolved as the redirect handler resolves it.            *)
(***************************************************************************)
Alphabet == {"https", "HTTP", "ftp", "javascript", "example.com",
             "evil.example", ":", "/", " ", "8080"}

RawDests ==
    {s \in UNION {[1..n -> Alphabet] : n \in 0..MaxLen} : WellTokenised(s)}

\* the same destination with its host names in upper case
UpperHost(s) ==
    [i \in DOMAIN s |-> IF s[i] = "example.com" THEN "EXAMPLE.COM" ELSE s[i]]

\* destOut before the handler has resolved rawIn
Unresolved == <<"(unresolved)">>

InitValidate ==
    /\ killed = FALSE
    /\ adminHist = <<>>
    /\ pool = FALSE
    /\ allowlist \in {{}, {"example.com"}}
    /\ hits = [k \in Keys |-> 0]
    /\ clicks = <<>>
    /\ clicksTotal = [s \in Slugs |-> 0]
    /\ pending = <<>>
    /\ resp = NoResp
    /\ rawIn \in RawDests \cup {UpperHost(s) : s \in RawDests}
    /\ destOut = Unresolved
    /\ proc = Booted(pool, 0)

\* the first two statements of the redirect handler, on req.query.dest = rawIn
Resolve ==
    /\ destOut = Unresolved
    /\ destOut' = ResolveDest(rawIn, allowlist)
    /\ UNCHANGED <<killed, adminHist, pool, allowlist, hits, clicks,
                   clicksTotal, pending, resp, rawIn, proc>>

NextValidate == Resolve

SpecValidate == InitValidate /\ [][NextValidate]_vars

(***************************************************************************)
(* The process: the schema initialisation started at load, termination     *)
(* signals, the exit, and a restart by the platform.  The clicks table is  *)
(* in the database and outlives the process; everything else is memory.    *)
(***************************************************************************)
Running == proc.running

\* process.exit(code), or the runtime ending the process with that code
Exited(p, code) == [p EXCEPT !.running = FALSE, !.exitCode = code]

\* the queries of the initialisation all resolve
DbInitOk ==
    /\ Running
    /\ proc.dbInit = "pending"
    /\ ~proc.ending
    /\ proc' = [proc EXCEPT !.dbInit = "ready"]
    /\ UNCHANGED <<killed, adminHist, pool, allowlist, hits, clicks,
                   clicksTotal, pending, resp, rawIn, destOut>>

\* one of them rejects: .catch((e) => console.error("DB init error:", e))
DbInitFails ==
    /\ Running
    /\ proc.dbInit = "pending"
    /\ proc' = [proc EXCEPT !.dbInit = "failed"]
    /\ UNCHANGED <<killed, adminHist, pool, allowlist, hits, clicks,
                   clicksTotal, pending, resp, rawIn, destOut>>

\* the initialisation of the second variant of index.js, (async () => { await
\* pool.query(...) })() without catch: the rejection is unhandled, and the
\* runtime either warns and goes on or ends the process with code 1,
\* depending on its version and its --unhandled-rejections mode
IndexDbInitFails(crashes) ==
    /\ Running
    /\ proc.dbInit = "pending"
    /\ proc' = IF crashes
               THEN Exited([proc EXCEPT !.dbInit = "failed"], 1)
               ELSE [proc EXCEPT !.dbInit = "failed"]
    /\ UNCHANGED <<killed, adminHist, pool, allowlist, hits, clicks,
                   clicksTotal, pending, resp, rawIn, destOut>>

\* shutdown(signal) with pool null: nothing is awaited, finally exits
ShutdownNoPool ==
    /\ Running
    /\ ~pool
    /\ proc' = Exited([proc EXCEPT !.signals = @ + 1], 0)
    /\ UNCHANGED <<killed, adminHist, pool, allowlist, hits, clicks,
                   clicksTotal, pending, resp, rawIn, destOut>>

\* shutdown(signal), the first call: pool.end() marks the pool as ending and
\* the call waits for the close
ShutdownBegin ==
    /\ Running
    /\ pool
    /\ ~proc.ending
    /\ proc' = [proc EXCEPT !.signals = @ + 1, !.ending = TRUE]
    /\ UNCHANGED <<killed, adminHist, pool, allowlist, hits, clicks,
                   clicksTotal, pending, resp, rawIn, destOut>>

\* shutdown(signal) while an earlier call waits for the close: pool.end() on
\* a pool that is ending rejects at once ("Called end on pool more than
\* once"), catch logs it, finally exits
ShutdownAgain ==
    /\ Running
    /\ pool
    /\ proc.ending
    /\ proc' = Exited([proc EXCEPT !.signals = @ + 1], 0)
    /\ UNCHANGED <<killed, adminHist, pool, allowlist, hits, clicks,
                   clicksTotal, pending, resp, rawIn, destOut>>

\* the close finishes, once every client is back in the pool: the promise of
\* the first pool.end() resolves, or rejects into catch, and finally exits
PoolEndSettles(ok) ==
    /\ Running
    /\ proc.ending
    /\ pending = <<>>
    /\ proc' = Exited([proc EXCEPT !.closed = IF ok THEN "ok" ELSE "error"], 0)
    /\ UNCHANGED <<killed, adminHist, pool, allowlist, hits, clicks,
                   clicksTotal, pending, resp, rawIn, destOut>>

\* GET /go/:slug on a pool that is ending: pool.query rejects at once
\* ("Cannot use a pool after calling end on the pool"), catch logs it
GoPoolEnding(req) ==
    /\ PassesGate(req)
    /\ UnderGo(req)
    /\ LimiterAllows(Counted(req))
    /\ RouteOf(req) = "go"
    /\ pool
    /\ proc.ending
    /\ CountHit(req)
    /\ IncClicks(req.path[2])
    /\ resp' = Redirect(req, DestString(req, allowlist), killed,
                        Counted(req),
                        {"gate", "limiter", "validator", "insert",
                         "insertFailed", "metric"})
    /\ UNCHANGED <<killed, adminHist, pool, allowlist, clicks, pending,
                   rawIn, destOut, proc>>

\* a mutant of Restart: the kill switch is restored from the run before
RestartKeepsSwitch ==
    /\ ~Running
    /\ proc.boots < MaxBoots
    /\ killed' = killed
    /\ adminHist' = adminHist
    /\ hits' = [k \in Keys |-> 0]
    /\ clicksTotal' = [s \in Slugs |-> 0]
    /\ pending' = <<>>
    /\ resp' = NoResp
    /\ proc' = [Booted(pool, proc.boots + 1) EXCEPT !.wasKilled = killed]
    /\ UNCHANGED <<pool, allowlist, clicks, rawIn, destOut>>

\* the platform starts the process again: the module is loaded afresh
Restart ==
    /\ ~Running
    /\ proc.boots < MaxBoots
    /\ killed' = FALSE
    /\ adminHist' = <<>>
    /\ hits' = [k \in Keys |-> 0]
    /\ clicksTotal' = [s \in Slugs |-> 0]
    /\ pending' = <<>>
    /\ resp' = NoResp
    /\ proc' = [Booted(pool, proc.boots + 1) EXCEPT !.wasKilled = killed]
    /\ UNCHANGED <<pool, allowlist, clicks, rawIn, destOut>>

ProcessRequests ==
    {Plain("GET", p) : p \in {<<>>, <<"status">>, <<"metrics">>,
                              <<"go", "promo">>}}
    \cup {Req("POST", p, c, <<>>, <<>>, "10.0.0.1", "curl") :
             p \in {<<"admin", "kill">>, <<"admin", "unkill">>},
             c \in {ADMIN, "wrong"}}
    \cup {Req("GET", p, ADMIN, <<>>, <<>>, "10.0.0.1", "curl") :
             p \in {<<"admin", "export">>, <<"admin", "last">>}}

\* a query on a pool that is ending rejects
QueryOutcomes == IF proc.ending THEN {TRUE} ELSE BOOLEAN

NextProcess ==
    \/ /\ Running
       /\ \E req \in ProcessRequests :
             \/ StatusNoPool(req)
             \/ ~proc.ending /\ StatusCount(req)
             \/ StatusQueryFails(req)
             \/ KillGate(req)
             \/ AdminKill(req)
             \/ AdminUnkill(req)
             \/ Root(req)
             \/ Metrics(req)
             \/ \E rejects \in QueryOutcomes :
                   \/ AdminExport(req, rejects)
                   \/ AdminLast(req, rejects)
             \/ GoBounded(req) /\ GoNoPool(req)
             \/ GoBounded(req) /\ pending = <<>> /\ ~proc.ending
                   /\ GoDispatch(req)
             \/ GoBounded(req) /\ GoPoolEnding(req)
    \/ /\ Running
       /\ \E i \in DOMAIN pending :
             \/ Len(clicks) < MaxClicks /\ GoInsertOk(i)
             \/ GoInsertFails(i)
    \/ DbInitOk
    \/ DbInitFails
    \/ proc.signals < MaxSignals /\ ShutdownNoPool
    \/ proc.signals < MaxSignals /\ ShutdownBegin
    \/ proc.signals < MaxSignals /\ ShutdownAgain
    \/ \E ok \in BOOLEAN : PoolEndSettles(ok)
    \/ Restart

SpecProcess == InitAdmin /\ [][NextProcess]_vars

(***************************************************************************)
(* The process of the second variant of index.js, whose initialisation has *)
(* no catch and which registers no signal handler.  Its requests carry no  *)
(* dest, for which its redirect handler and the one modelled here agree.   *)
(***************************************************************************)
IndexProcessRequests ==
    {Plain("GET", <<>>)} \cup {Plain("GET", <<"go", s>>) : s \in Slugs}

NextIndexProcess ==
    \/ /\ Running
       /\ \E req \in IndexProcessRequests :
             \/ Root(req)
             \/ GoBounded(req) /\ GoNoPool(req)
             \/ GoBounded(req) /\ pending = <<>> /\ GoDispatch(req)
    \/ /\ Running
       /\ \E i \in DOMAIN pending :
             \/ Len(clicks) < MaxClicks /\ GoInsertOk(i)
             \/ GoInsertFails(i)
    \/ DbInitOk
    \/ \E crashes \in BOOLEAN : IndexDbInitFails(crashes)
    \/ Restart

SpecIndexProcess == InitAdmin /\ [][NextIndexProcess]_vars

(***************************************************************************)
(* Properties.  A response "is sent in a step" when resp changes in it:    *)
(* a step that sends the very response that was sent last, for the very    *)
(* same request met in the very same state, leaves resp as it was.         *)
(***************************************************************************)
Answered == resp.status # 0

AnsweredNow == resp' # resp

\* the components the claims call rate limiter, destination validator, click recorder
Pipeline == {"limiter", "validator", "insert", "metric"}

Rejected503(r) ==
    /\ r.status = 503
    /\ r.body = "Service unavailable"
    /\ r.nth = 0
    /\ r.loc = <<>>
    /\ r.ran \cap Pipeline = {}

C2_KillThen503UnkillThen302 ==
    /\ adminHist # <<>> => (killed <=> adminHist[Len(adminHist)] = "kill")
    /\ (Answered /\ RouteOf(resp.req) = "go")
          => /\ resp.sawKilled => resp.status = 503
             /\ (~resp.sawKilled /\ resp.nth <= RATE_MAX) => resp.status = 302

C2_Witness ==
    /\ adminHist = <<"kill", "unkill">>
    /\ RouteOf(resp.req) = "go"
    /\ ~resp.sawKilled
    /\ resp.status = 302

\* C3: a POST /admin/kill or /admin/unkill whose x-admin-pass is absent or is
\* not the admin secret is answered 403 "forbidden" and leaves the kill switch
\* as it was, whatever its state.
C3_BadCredentialForbidden ==
    [][(AnsweredNow /\ RouteOf(resp'.req) \in {"kill", "unkill"}
            /\ resp'.req.pass # ADMIN)
          => /\ resp'.status = 403
             /\ resp'.body = "forbidden"
             /\ killed' = killed]_vars

C3_Witness ==
    /\ RouteOf(resp.req) = "unkill"
    /\ resp.req.pass = NoHeader
    /\ resp.status = 403
    /\ resp.sawKilled
    /\ killed

\* C4: a kill with the valid credential leaves the switch KILLED and an unkill
\* with the valid credential leaves it LIVE, whatever the state before: after any
\* sequence of them the state is the one the last asked for, and a repeated
\* operation changes nothing.
C4_LastOperationWins ==
    [][/\ (AnsweredNow /\ RouteOf(resp'.req) = "kill" /\ resp'.req.pass = ADMIN)
            => killed' = TRUE
       /\ (AnsweredNow /\ RouteOf(resp'.req) = "unkill" /\ resp'.req.pass = ADMIN)
            => killed' = FALSE
       /\ (adminHist' # <<>>
            => killed' = (adminHist'[Len(adminHist')] = "kill"))]_vars

C4_Witness ==
    /\ adminHist = <<"kill", "kill">>
    /\ RouteOf(resp.req) = "kill"
    /\ resp.sawKilled
    /\ resp.status = 200
    /\ killed

\* C5: a request on an /admin path is never answered by the kill-switch gate,
\* in either state, and a POST /admin/unkill with the valid credential that
\* meets the switch KILLED is answered "un-killed" and leaves it LIVE.
C5_AdminPathsPassGate ==
    [][(AnsweredNow /\ StartsWithAdmin(resp'.req.path))
          => /\ resp'.status # 503
             /\ (RouteOf(resp'.req) = "unkill" /\ resp'.req.pass = ADMIN)
                   => (resp'.body = "un-killed" /\ ~killed')]_vars

C5_Witness ==
    /\ RouteOf(resp.req) = "unkill"
    /\ resp.sawKilled
    /\ resp.body = "un-killed"
    /\ ~killed

\* C8: a GET /go request that passed the kill-switch and rate-limit gates is
\* answered with a 302 to the resolved destination when storage is not
\* configured and when the insert fails; the failure is not in the response.
C8_StorageFailureStillRedirects ==
    (Answered /\ RouteOf(resp.req) = "go" /\ ~resp.sawKilled
        /\ resp.nth \in 1..RATE_MAX
        /\ (~pool \/ "insertFailed" \in resp.ran))
      => /\ resp.status = 302
         /\ resp.body = "redirect"
         /\ resp.loc = ResolveDest(resp.req.dest, allowlist)

C8_Witness ==
    /\ pool
    /\ "insertFailed" \in resp.ran
    /\ resp.status = 302
    /\ resp.loc = EvilDest

C6_First120AllowedThenRejected ==
    /\ (Answered /\ UnderGo(resp.req) /\ ~resp.sawKilled)
          => /\ resp.nth >= 1
             /\ resp.nth <= RATE_MAX => resp.status = 302
             /\ resp.nth = RATE_MAX + 1
                   => (resp.status = 429 /\ resp.body = "Too many requests")
    /\ \A i \in DOMAIN pending : pending[i].nth \in 1..RATE_MAX

C6_Witness ==
    /\ ~resp.sawKilled
    /\ resp.nth = RATE_MAX + 1
    /\ resp.status = 429
    /\ clicksTotal["promo"] = RATE_MAX

\* C7: a request the rate limiter rejects gets no 302, and in the step that
\* rejects it no ClickEvent is stored or requested and no clicks counter moves:
\* neither the validator nor the recorder runs for it.
C7_RejectedNotRecorded ==
    [][(AnsweredNow /\ resp'.status = 429)
          => /\ UNCHANGED <<clicks, clicksTotal, pending>>
             /\ resp'.loc = <<>>
             /\ resp'.ran \cap {"validator", "insert", "metric"} = {}]_vars

C7_Witness ==
    /\ resp.status = 429
    /\ UnderGo(resp.req)
    /\ pool
    /\ Len(clicks) = MaxClicks

(***************************************************************************)
(* What a valid absolute http(s) URL is, said by its shape and not by the  *)
(* parser: optional spaces, the scheme in any case, ":", any number of     *)
(* "/", a host name, then nothing, a path, or ":" with an optional port    *)
(* and an optional path; optional spaces.                                  *)
(***************************************************************************)
AllIn(s, from, to, set) == \A j \in from..to : s[j] \in set

HttpShape(core) ==
    /\ Len(core) >= 3
    /\ core[1] \in {"http", "https", "HTTP", "HTTPS"}
    /\ core[2] = ":"
    /\ \E h \in 3..Len(core) :
          /\ AllIn(core, 3, h - 1, {"/"})
          /\ core[h] \in Words \cup Ports
          /\ LET tail == SubSeq(core, h + 1, Len(core))
             IN  \/ tail = <<>>
                 \/ tail[1] = "/"
                 \/ /\ tail[1] = ":"
                    /\ \/ Len(tail) = 1
                       \/ tail[2] = "/"
                       \/ tail[2] \in Ports /\ (Len(tail) = 2 \/ tail[3] = "/")

IsHttpUrl(raw) ==
    \E a \in 0..Len(raw), b \in 0..Len(raw) :
        /\ a + b <= Len(raw)
        /\ AllIn(raw, 1, a, Spaces)
        /\ AllIn(raw, Len(raw) - b + 1, Len(raw), Spaces)
        /\ HttpShape(SubSeq(raw, a + 1, Len(raw) - b))

\* C10: with an empty allowed-host set, validation returns the input unchanged
\* when it is a valid absolute URL with scheme http or https, and the fallback
\* https://example.com for every other input; it returns a value for every input.
C10_EmptyAllowlistValidation ==
    (destOut # Unresolved /\ allowlist = {})
        => destOut = (IF IsHttpUrl(rawIn) THEN rawIn ELSE FALLBACK)

C10_Witness ==
    /\ allowlist = {}
    /\ destOut = rawIn
    /\ rawIn = <<" ", "HTTP", ":", "evil.example">>

\* an http(s) URL, by its shape, whose host is one of hosts
HttpShapeOn(core, hosts) ==
    /\ HttpShape(core)
    /\ \E h \in 3..Len(core) :
          /\ AllIn(core, 3, h - 1, {"/"})
          /\ core[h] \in hosts

IsHttpUrlOn(raw, hosts) ==
    \E a \in 0..Len(raw), b \in 0..Len(raw) :
        /\ a + b <= Len(raw)
        /\ AllIn(raw, 1, a, Spaces)
        /\ AllIn(raw, Len(raw) - b + 1, Len(raw), Spaces)
        /\ HttpShapeOn(SubSeq(raw, a + 1, Len(raw) - b), hosts)

\* the host names that are, compared case-insensitively, in the allowed set
HostsAllowed == {w \in Words \cup Ports : Lower(w) \in allowlist}

\* C11: with a non-empty allowed-host set, validation returns the input
\* unchanged exactly when it is a valid http or https URL whose host name,
\* compared case-insensitively, is in the set, and the fallback
\* https://example.com for every other input.
C11_AllowlistValidation ==
    (destOut # Unresolved /\ allowlist # {})
        => destOut = (IF IsHttpUrlOn(rawIn, HostsAllowed) THEN rawIn ELSE FALLBACK)

C11_Witness ==
    /\ allowlist = {"example.com"}
    /\ destOut = rawIn
    /\ rawIn = <<"HTTP", ":", "/", "EXAMPLE.COM", ":">>

\* the other half of the case: a valid https URL on a host outside the set
C11_WitnessFallback ==
    /\ allowlist = {"example.com"}
    /\ rawIn = <<"https", ":", "/", "/", "evil.example">>
    /\ destOut = FALLBACK

\* C12, as stated: in every reachable state the destination of every stored
\* ClickEvent is a syntactically valid absolute URL with scheme http or https
\* that passed validation, or is the fallback.
C12_StoredDestIsValidUrl ==
    \A i \in DOMAIN clicks :
        /\ IsHttpUrl(clicks[i].dest)
        /\ clicks[i].dest = FALLBACK \/ isAllowedDest(clicks[i].dest, allowlist)

\* C13, as stated: for every accepted GET /go request whose ClickEvent is
\* stored, the URL of the 302 response and the destination of the ClickEvent
\* are the same validator output and the stored slug is the request's slug; a
\* dest on a host outside a non-empty allowlist gives the fallback in both.
C13_ResponseAndRecordAgree ==
    [][Len(clicks') > Len(clicks)
          => LET row == clicks'[Len(clicks')]
             IN  /\ resp'.status = 302
                 /\ resp'.loc = ResolveDest(StringOf(QueryDest(resp'.req)), allowlist)
                 /\ row.dest = resp'.loc
                 /\ row.slug = resp'.req.path[2]
                 /\ (allowlist # {} /\ resp'.req.dest = EvilDest)
                       => (resp'.loc = FALLBACK /\ row.dest = FALLBACK)]_vars

\* the admin query and export routes
AdminQueryRoutes == {"exportDay", "export", "last", "stats"}

\* C14: an admin query or export request (stats, last, export, export/day)
\* whose credential is absent or is not the admin secret is answered 403
\* "forbidden", the same response in both cases, whatever the store holds:
\* the store is not queried and the response carries no rows.
C14_UnauthenticatedQueryForbidden ==
    (Answered /\ RouteOf(resp.req) \in AdminQueryRoutes /\ resp.req.pass # ADMIN)
        => /\ resp.status = 403
           /\ resp.body = "forbidden"
           /\ resp.rows = <<>>
           /\ resp.loc = <<>> /\ resp.ok = "" /\ resp.clicks = -1
           /\ resp.ran \cap {"query", "threw"} = {}

C14_Witness ==
    /\ pool
    /\ Len(clicks) = MaxClicks
    /\ RouteOf(resp.req) = "stats"
    /\ resp.req.pass = NoHeader
    /\ resp.status = 403

\* C15, as stated: a kill or unkill request is authenticated exactly when its
\* x-admin-pass header equals the admin secret; a credential given only in the
\* query string or the form body does not authenticate, and when several
\* channels carry a credential the header decides.
C15_HeaderAloneDecides ==
    [][(AnsweredNow /\ RouteOf(resp'.req) \in {"kill", "unkill"})
          => /\ resp'.status = 200 <=> resp'.req.pass = ADMIN
             /\ resp'.status = 403 <=> resp'.req.pass # ADMIN]_vars

\* C16: an authenticated admin query or export request is answered with a 500
\* that carries an error message when storage is not configured and when the
\* query fails, and never with a 200 and a partial or empty document.
C16_StorageFailureIsServerError ==
    (Answered /\ RouteOf(resp.req) \in AdminQueryRoutes /\ resp.req.pass = ADMIN)
        => /\ (~pool \/ "queryFailed" \in resp.ran)
                => /\ resp.status = 500
                   /\ resp.body \in {"export error", "error exporting CSV", "error"}
                   /\ resp.rows = <<>>
           /\ resp.status = 200
                => (pool /\ "query" \in resp.ran /\ "queryFailed" \notin resp.ran)

C16_Witness ==
    /\ ~pool
    /\ RouteOf(resp.req) = "export"
    /\ resp.req.pass = ADMIN
    /\ resp.status = 500
    /\ resp.body = "error exporting CSV"

\* C17, as stated: an authenticated GET /admin/export whose query succeeds
\* returns min(N, 1000) rows, N the number of stored ClickEvents: the rows
\* with the largest ids, by id descending.
C17_ExportReturnsLatestThousand ==
    (Answered /\ RouteOf(resp.req) = "export" /\ resp.req.pass = ADMIN
        /\ "queryFailed" \notin resp.ran)
      => /\ resp.status = 200
         /\ Len(resp.rows) = (IF Len(clicks) <= 1000 THEN Len(clicks) ELSE 1000)
         /\ \A i \in DOMAIN resp.rows :
               /\ resp.rows[i] = clicks[resp.rows[i].id]
               /\ resp.rows[i].id = Len(clicks) + 1 - i

\* C17, for a table that is not empty: the export returns min(N, 1000) rows,
\* the rows with the largest ids, by id descending.
C17_ExportOfNonEmptyTable ==
    (Answered /\ RouteOf(resp.req) = "export" /\ resp.req.pass = ADMIN
        /\ "queryFailed" \notin resp.ran /\ clicks # <<>>)
      => /\ resp.status = 200
         /\ Len(resp.rows) = (IF Len(clicks) <= 1000 THEN Len(clicks) ELSE 1000)
         /\ \A i \in DOMAIN resp.rows :
               /\ resp.rows[i] = clicks[resp.rows[i].id]
               /\ resp.rows[i].id = Len(clicks) + 1 - i

C17_WitnessOverLimit ==
    /\ Len(clicks) = 1002
    /\ Len(resp.rows) = 1000
    /\ resp.rows[1].id = 1002
    /\ resp.rows[1000].id = 3

RECURSIVE SumHits(_)
SumHits(rows) == IF rows = <<>> THEN 0 ELSE Head(rows).hits + SumHits(Tail(rows))

\* C18: an authenticated GET /admin/stats whose query succeeds returns one
\* entry per distinct slug among the stored ClickEvents, each with the number
\* of events that carry the slug, the entries by count non-increasing; the
\* counts sum to the number of stored events.
C18_StatsCountsPerSlug ==
    [][(AnsweredNow /\ RouteOf(resp'.req) = "stats" /\ resp'.req.pass = ADMIN
            /\ pool /\ "queryFailed" \notin resp'.ran)
          => LET rows == resp'.rows
             IN  /\ resp'.status = 200
                 /\ {rows[i].slug : i \in DOMAIN rows}
                        = {clicks[j].slug : j \in DOMAIN clicks}
                 /\ \A i, j \in DOMAIN rows : i # j => rows[i].slug # rows[j].slug
                 /\ \A i \in DOMAIN rows :
                       rows[i].hits = Cardinality({j \in DOMAIN clicks :
                                                     clicks[j].slug = rows[i].slug})
                 /\ \A i \in 1..(Len(rows) - 1) : rows[i].hits >= rows[i + 1].hits
                 /\ SumHits(rows) = Len(clicks)]_vars

C18_Witness ==
    /\ Len(clicks) = 4
    /\ resp.status = 200
    /\ Len(resp.rows) = 3
    /\ resp.rows[1] = [slug |-> "sale", hits |-> 2]
    /\ resp.rows[2].hits = 1
    /\ resp.rows[3].slug = "promo"

RedirectPathGet(r) ==
    /\ r.req.method = "GET"
    /\ UnderGo(r.req)
    /\ ~r.sawKilled
    /\ r.nth \in 1..RATE_MAX

\* the request carries no dest parameter
NoDest(req) == req.dest = <<>> /\ req.destMore = <<>>

\* the slug of the request, the empty string when the path has none
SlugOrEmpty(req) == IF Len(req.path) >= 2 THEN req.path[2] ELSE ""

\* C20, as stated: a GET on the redirect path without slug is handled as a
\* redirect, with the empty string recorded as slug, and a redirect request
\* without dest is redirected to, and recorded with, https://example.com.
C20_Original ==
    [][(AnsweredNow /\ RedirectPathGet(resp'))
          => /\ resp'.status = 302
             /\ NoDest(resp'.req) => resp'.loc = FALLBACK
             /\ (pool /\ "insertFailed" \notin resp'.ran)
                   => /\ Len(clicks') = Len(clicks) + 1
                      /\ clicks'[Len(clicks')].slug = SlugOrEmpty(resp'.req)
                      /\ NoDest(resp'.req)
                            => clicks'[Len(clicks')].dest = FALLBACK]_vars

\* C20, amended: a GET on the redirect path without slug matches no route: the
\* rate limiter counts it, it is answered 404, and nothing is recorded or
\* counted for it.  A GET /go/{slug} without dest is redirected to, and, when
\* the insert succeeds, recorded with, https://example.com.
C20_SlugRequiredDestOptional ==
    [][/\ (AnsweredNow /\ RedirectPathGet(resp'))
            => IF Len(resp'.req.path) < 2
               THEN /\ resp'.status = 404
                    /\ resp'.loc = <<>>
                    /\ hits'[LimiterKey(resp'.req)] = hits[LimiterKey(resp'.req)] + 1
                    /\ UNCHANGED <<clicks, pending, clicksTotal>>
               ELSE /\ resp'.status = 302
                    /\ NoDest(resp'.req) => resp'.loc = FALLBACK
                    /\ (pool /\ "insertFailed" \notin resp'.ran)
                          => /\ Len(clicks') = Len(clicks) + 1
                             /\ clicks'[Len(clicks')].slug = resp'.req.path[2]
                             /\ NoDest(resp'.req)
                                   => clicks'[Len(clicks')].dest = FALLBACK
       /\ \A i \in DOMAIN pending' : Len(pending'[i].req.path) = 2]_vars

C20_Witness ==
    /\ Len(clicks) = 1
    /\ clicks[1].slug = "sale"
    /\ clicks[1].dest = FALLBACK
    /\ resp.req.path = <<"go">>
    /\ resp.status = 404
    /\ resp.nth = 2

(***************************************************************************)
(* The click store and the handler's wait for it.                          *)
(***************************************************************************)
\* the step stores one more row
RowAdded == Len(clicks') = Len(clicks) + 1

\* the step ends a handler's wait for its insert
InsertSettled == Len(pending') < Len(pending)

\* C21: the click store is append-only and gets one ClickEvent per accepted
\* redirect.  No step changes or removes a stored row; a step adds at most one
\* row; a row is added only by a step that ends the wait of a GET /go/{slug}
\* request which passed the kill switch and the limiter, is answered 302 in
\* that step, and whose slug, client address and user agent the row holds;
\* every insert the storage accepts adds its row; a step that answers 503,
\* 429, 403 or 404 adds none.
C21_AppendOnlyOneRowPerRedirect ==
    [][/\ Len(clicks') >= Len(clicks)
       /\ SubSeq(clicks', 1, Len(clicks)) = clicks
       /\ Len(clicks') <= Len(clicks) + 1
       /\ RowAdded
            => /\ InsertSettled
               /\ resp'.status = 302
               /\ RouteOf(resp'.req) = "go"
               /\ ~resp'.sawKilled
               /\ LimiterAllows(resp'.nth)
               /\ "insert" \in resp'.ran
               /\ LET row == clicks'[Len(clicks')]
                  IN  /\ row.id = Len(clicks')
                      /\ row.slug = resp'.req.path[2]
                      /\ row.ip = ClientIp(resp'.req)
                      /\ row.ua = resp'.req.ua
       /\ (InsertSettled /\ "insertFailed" \notin resp'.ran) => RowAdded
       /\ (AnsweredNow /\ resp'.status \in {503, 429, 403, 404})
            => clicks' = clicks]_vars

\* two accepted redirects have been recorded, each with its own row
C21_Witness ==
    /\ Len(clicks) = 2
    /\ clicks[1].id = 1 /\ clicks[2].id = 2
    /\ resp.status = 302
    /\ "insert" \in resp.ran
    /\ "insertFailed" \notin resp.ran

\* C22: the redirect handler does not wait for the store: the step that
\* issues the insert of a request also sends that request its 302.
C22_RedirectSentWithoutWaiting ==
    [][Len(pending') > Len(pending)
          => LET p == pending'[Len(pending')]
             IN  /\ resp'.status = 302
                 /\ resp'.req = p.req
                 /\ resp'.nth = p.nth
                 /\ "insertFailed" \notin resp'.ran]_vars

\* what the handler does instead: while the insert of a request is pending the
\* request has no response; its 302 is sent by the step that ends the wait
C22_RedirectAwaitsInsert ==
    [][/\ Len(pending') > Len(pending) => resp' = resp
       /\ InsertSettled
            => /\ resp'.status = 302
               /\ \E i \in DOMAIN pending :
                     /\ resp'.req = pending[i].req
                     /\ resp'.nth = pending[i].nth
                     /\ pending' = Without(pending, i)]_vars

\* C23: every GET /go request that passes the kill switch and the limiter
\* eventually gets its 302, whatever the store does: a handler waiting for its
\* insert eventually stops waiting.
C23_AcceptedGoEventuallyAnswered ==
    (pending # <<>>) ~> (pending = <<>>)

\* what the handler guarantees: a request whose insert settles, either way,
\* is answered
C23_AnsweredWhenInsertSettles ==
    (\E i \in DOMAIN pending : ~pending[i].hung)
        ~> (\A i \in DOMAIN pending : pending[i].hung)

\* the step dispatches a request and answers it at once
DispatchedAndAnswered == AnsweredNow /\ ~InsertSettled

\* C24: a kill or unkill transition is atomic, and every request dispatched
\* after it meets the new state, whatever else is in flight.  The switch
\* changes only in the step that answers a kill or unkill with 200, takes that
\* operation's value in that very step, and the step touches no request in
\* flight; a request off the admin paths that is dispatched while the switch
\* is KILLED is answered 503 by the gate or is a GET /status, which is
\* registered before the gate, and none is admitted to the redirect handler;
\* one dispatched while it is LIVE is not answered 503; a request already
\* waiting for its insert keeps the state it met at dispatch.
C24_TransitionAtomicAndVisible ==
    [][/\ killed' # killed
            => /\ AnsweredNow
               /\ resp'.status = 200
               /\ RouteOf(resp'.req) \in {"kill", "unkill"}
               /\ adminOK(resp'.req)
               /\ pending' = pending
       /\ (AnsweredNow /\ resp'.status = 200
              /\ RouteOf(resp'.req) \in {"kill", "unkill"})
            => killed' = (RouteOf(resp'.req) = "kill")
       /\ Len(pending') > Len(pending)
            => /\ ~killed
               /\ ~pending'[Len(pending')].sawKilled
       /\ (DispatchedAndAnswered /\ ~StartsWithAdmin(resp'.req.path))
            => /\ resp'.sawKilled = killed
               /\ killed => \/ Rejected503(resp')
                            \/ RouteOf(resp'.req) = "status"
               /\ ~killed => resp'.status # 503
       /\ InsertSettled => ~resp'.sawKilled]_vars

\* a request dispatched before a kill is still waiting for its insert, and a
\* request dispatched after the kill has been rejected by the gate
C24_Witness ==
    /\ killed
    /\ pending # <<>>
    /\ ~pending[1].sawKilled
    /\ RouteOf(resp.req) = "go"
    /\ Rejected503(resp)

\* the /go requests of the window that the limiter has admitted: those
\* answered 302 and those waiting for their insert
Admitted == Redirects

\* C25: under any interleaving of concurrent GET /go requests of one identity
\* the limiter's count-and-check is atomic: the requests admitted in a window
\* are as many as were counted, up to the limit of 120 and never beyond it,
\* and no two requests in flight were given the same count.
C25_AdmittedNeverExceedLimit ==
    /\ Admitted = Min(hits["10.0.0.1"], RATE_MAX)
    /\ Admitted <= RATE_MAX
    /\ \A i \in DOMAIN pending :
          /\ LimiterAllows(pending[i].nth)
          /\ pending[i].nth <= hits[LimiterKey(pending[i].req)]
          /\ \A j \in DOMAIN pending : i # j => pending[i].nth # pending[j].nth

\* the 119th and the 120th request of the window are waiting for their inserts
\* when the 121st is rejected
C25_Witness ==
    /\ Len(pending) = 2
    /\ {pending[1].nth, pending[2].nth} = {RATE_MAX - 1, RATE_MAX}
    /\ resp.status = 429
    /\ resp.nth = RATE_MAX + 1
    /\ Admitted = RATE_MAX

\* the request was redirected: its handler ran
Redirected(r) == r.status = 302 /\ RouteOf(r.req) = "go"

\* C26: the limiter counts a request against the client address the handler
\* records for it (the first component of the forwarded-for header, else the
\* peer address), so two requests share a limiter bucket exactly when they
\* share the recorded client address.
C26_LimiterCountsRecordedAddress ==
    /\ Redirected(resp) => LimiterKey(resp.req) = ClientIp(resp.req)
    /\ \A i \in DOMAIN pending :
          /\ LimiterKey(pending[i].req) = pending[i].ip
          /\ Redirected(resp)
                => (LimiterKey(pending[i].req) = LimiterKey(resp.req)
                      <=> pending[i].ip = ClientIp(resp.req))

\* what the two agree on: a request that arrives directly or whose header has
\* a single component
C26_SameIdentityThroughOneProxy ==
    /\ (Redirected(resp) /\ Len(resp.req.xff) <= 1)
          => LimiterKey(resp.req) = ClientIp(resp.req)
    /\ \A i \in DOMAIN pending :
          Len(pending[i].req.xff) <= 1
              => LimiterKey(pending[i].req) = pending[i].ip

\* two clients behind the same hop: one bucket, two recorded addresses
C26_WitnessSharedBucket ==
    /\ Redirected(resp)
    /\ pending # <<>>
    /\ pending[1].ip # ClientIp(resp.req)
    /\ LimiterKey(pending[1].req) = LimiterKey(resp.req)
    /\ {resp.nth, pending[1].nth} = {1, 2}

\* C27: the rate limiter applies only to the redirect path.  A request to an
\* admin path, to /status or to / is never answered 429 and is never counted,
\* however many the window already holds: a step that answers a request off
\* the redirect path leaves every limiter count as it was, and a count grows
\* only for the key of a request under /go, by one.
C27_LimiterOnlyOnRedirectPath ==
    [][/\ (AnsweredNow /\ ~UnderGo(resp'.req))
            => /\ resp'.status # 429
               /\ resp'.nth = 0
               /\ "limiter" \notin resp'.ran
               /\ hits' = hits
       /\ \A k \in Keys :
             hits'[k] > hits[k]
                => /\ hits'[k] = hits[k] + 1
                   /\ \/ /\ Len(pending') > Len(pending)
                         /\ UnderGo(pending'[Len(pending')].req)
                         /\ LimiterKey(pending'[Len(pending')].req) = k
                      \/ /\ UnderGo(resp'.req)
                         /\ LimiterKey(resp'.req) = k
                         /\ resp'.nth = hits'[k]]_vars

\* the client has used up its window on the redirect path and its admin
\* request is served
C27_Witness ==
    /\ hits["10.0.0.1"] > RATE_MAX
    /\ RouteOf(resp.req) = "unkill"
    /\ LimiterKey(resp.req) = "10.0.0.1"
    /\ resp.status = 200


(***************************************************************************)
(* The life of the process.                                                *)
(***************************************************************************)
\* the step starts the process
Started == proc'.boots # proc.boots

\* the step answers a kill or unkill that carries the credential
AdminTransition ==
    /\ AnsweredNow
    /\ resp'.status = 200
    /\ RouteOf(resp'.req) \in {"kill", "unkill"}
    /\ adminOK(resp'.req)

\* C28: the kill switch is LIVE at every start of the process, whatever it
\* was when the run before ended, and within a run it changes only in a step
\* that answers an authenticated POST /admin/kill or /admin/unkill with 200:
\* a redirect, a status, root, metrics, admin query or export request, a kill
\* or unkill with a wrong credential, the settling of an insert, the schema
\* initialisation and a termination signal leave it as it is.
C28_LiveAtStartChangedOnlyByAdmin ==
    /\ ~killed
    /\ [][/\ Started => ~killed'
          /\ killed' # killed
               => \/ Started
                  \/ /\ AdminTransition
                     /\ killed' = (RouteOf(resp'.req) = "kill")
          /\ (AnsweredNow /\ ~Started /\ ~AdminTransition)
               => killed' = killed
          /\ (InsertSettled /\ ~Started) => killed' = killed
          /\ (proc' # proc /\ ~Started) => killed' = killed]_vars

\* the run before ended KILLED; this run started LIVE and has served a redirect
C28_Witness ==
    /\ proc.boots = 1
    /\ proc.wasKilled
    /\ ~killed
    /\ Redirected(resp)
    /\ ~resp.sawKilled

\* C29: whatever signals arrive, the process exits by its shutdown handler
\* only after the close of the storage pool has finished, with or without an
\* error.
C29_ExitOnlyAfterPoolClosed ==
    (~Running /\ pool /\ proc.exitCode = 0) => proc.closed # "no"

\* what the handler guarantees: a process that received a single signal has
\* exited only after the close finished
C29_SingleSignalWaitsForClose ==
    (~Running /\ pool /\ proc.signals = 1) => proc.closed # "no"

\* a second signal has ended the process while the pool was still closing
\* with a request waiting for its insert
C29_WitnessExitDuringClose ==
    /\ ~Running
    /\ proc.signals = 2
    /\ proc.ending
    /\ proc.closed = "no"
    /\ pending # <<>>

\* C30: a failure of the schema initialisation at startup does not end the
\* process: after it the service is still running.
C30_InitFailureKeepsServiceRunning ==
    proc.dbInit = "failed" => Running

\* the initialisation with the catch: after its failure the process ends only
\* by a termination signal, and a /go request dispatched after it is answered
\* 302
C30_CaughtInitFailureKeepsService ==
    /\ (proc.dbInit = "failed" /\ ~Running)
          => proc.signals > 0 /\ proc.exitCode = 0
    /\ (proc.dbInit = "failed" /\ Answered /\ RouteOf(resp.req) = "go"
           /\ ~resp.sawKilled)
          => resp.status = 302

\* the schema initialisation failed and a redirect was served all the same
C30_WitnessServedAfterFailure ==
    /\ proc.dbInit = "failed"
    /\ Running
    /\ Redirected(resp)
    /\ "insertFailed" \in resp.ran

\* C31: the kill gate is evaluated once per request, when it is dispatched.
\* A GET /go request that passed the gate while LIVE and waits for its insert
\* is not stopped by a kill that succeeds meanwhile: the step that ends its
\* wait sends its 302 and, when the insert resolved, stores its row, whatever
\* the switch is by then; and a 302 sent while the switch is KILLED always
\* answers a request that was dispatched, LIVE, before the kill.
C31_GateEvaluatedOnceAtDispatch ==
    [][/\ InsertSettled
            => /\ resp'.status = 302
               /\ ~resp'.sawKilled
               /\ "insertFailed" \notin resp'.ran => RowAdded
               /\ killed' = killed
       /\ (AnsweredNow /\ resp'.status = 302 /\ killed)
            => /\ InsertSettled
               /\ ~resp'.sawKilled
               /\ adminHist # <<>>
               /\ adminHist[Len(adminHist)] = "kill"]_vars

\* the switch is KILLED, and the request dispatched before the kill has got
\* its 302 and its row
C31_Witness ==
    /\ killed
    /\ Redirected(resp)
    /\ ~resp.sawKilled
    /\ "insert" \in resp.ran
    /\ "insertFailed" \notin resp.ran
    /\ clicks # <<>>
    /\ clicks[Len(clicks)].slug = resp.req.path[2]

\* the request does not carry the valid admin credential, in the header or in
\* any channel an older variant reads
Unauthenticated(req) == ~adminOK(req) /\ passFrom(req) # ADMIN

\* C32: every route registered under /admin answers 403 unless the request
\* carries the valid admin credential, and tells an unauthenticated caller
\* nothing about configuration or storage.
C32_AdminRoutesRequireCredential ==
    (Answered /\ StartsWithAdmin(resp.req.path) /\ Unauthenticated(resp.req))
        => /\ resp.status = 403
           /\ resp.body = "forbidden"
           /\ resp.ok = ""
           /\ resp.rows = <<>>
           /\ "query" \notin resp.ran

\* what holds of the hardened variant: an unauthenticated request to an admin
\* path is answered 403 by the route it matches, or 404 when it matches none,
\* and no query runs for it
C32_HardenedAdminRoutesForbid ==
    (Answered /\ StartsWithAdmin(resp.req.path) /\ ~adminOK(resp.req))
        => /\ IF RouteOf(resp.req) = "none"
              THEN resp.status = 404
              ELSE resp.status = 403 /\ resp.body = "forbidden"
           /\ resp.ok = ""
           /\ resp.rows = <<>>
           /\ "query" \notin resp.ran

\* a caller without credential has been told that the database is configured
\* and reachable, while the service is KILLED
C32_WitnessDebugRouteAnswers ==
    /\ killed
    /\ resp.req.path = <<"admin", "_dbcheck">>
    /\ Unauthenticated(resp.req)
    /\ resp.status = 200
    /\ resp.ok = "true"

====
